---- MODULE Spec2Model ----
(***************************************************************************)
(* The metadata-aggregation core of node-boilerplate: the decorator layer  *)
(* writing the reflect-metadata store, ControllerBase.setupRoutes binding  *)
(* routes, and SwaggerService.generateSpec assembling the OpenAPI document.*)
(***************************************************************************)
EXTENDS Integers, Sequences, FiniteSets, TLC

(***************************************************************************)
(* Bounds of the model.                                                    *)
(***************************************************************************)
\* declarations applied at module load in the free scenario
MaxDecl == 3
\* calls of SwaggerService.addGenerator
MaxGenerators == 2
\* calls of SwaggerService.generateSpec
MaxGenerate == 2
\* direct calls of SwaggerGenerator.addRoute
MaxAddRoute == 1

(***************************************************************************)
(* JavaScript values.  An optional value is <<>> (undefined) or <<v>>.     *)
(***************************************************************************)
None == <<>>
Some(v) == <<v>>
IsSome(o) == Len(o) > 0

\* obj[key] = value on a plain object whose keys are strings: a new key is
\* appended in insertion order, an existing key keeps its position
PutKey(obj, key, value) ==
  IF \E i \in DOMAIN obj : obj[i].name = key
  THEN [i \in DOMAIN obj |-> IF obj[i].name = key THEN [name |-> key, fact |-> value] ELSE obj[i]]
  ELSE Append(obj, [name |-> key, fact |-> value])

\* obj[key] = value on an object modelled as a function (key order not kept)
PutEntry(obj, key, value) ==
  [k \in (DOMAIN obj) \cup {key} |-> IF k = key THEN value ELSE obj[k]]

EmptyObject == [k \in {} |-> None]

\* String.prototype.toUpperCase / toLowerCase on the verb spellings in use
ToUpperCase(s) ==
  CASE s \in {"get", "Get", "GET"} -> "GET"
    [] s \in {"post", "Post", "POST"} -> "POST"
    [] s \in {"put", "PUT"} -> "PUT"
    [] s \in {"delete", "DELETE"} -> "DELETE"
    [] s \in {"patch", "PATCH"} -> "PATCH"
    [] s \in {"custom", "CUSTOM"} -> "CUSTOM"
    [] OTHER -> s

ToLowerCase(s) ==
  CASE s \in {"get", "Get", "GET"} -> "get"
    [] s \in {"post", "Post", "POST"} -> "post"
    [] s \in {"put", "PUT"} -> "put"
    [] s \in {"delete", "DELETE"} -> "delete"
    [] s \in {"patch", "PATCH"} -> "patch"
    [] s \in {"custom", "CUSTOM"} -> "custom"
    [] OTHER -> s

(***************************************************************************)
(* The classes of the program and their prototype chains.                  *)
(***************************************************************************)
NoClass == "Object"

DtoClasses ==
  {"TimestampDto", "UserResponseDto", "UserListResponseDto", "CreateUserDto",
   "UpdateUserDto", "ErrorResponseDto", "ValidationErrorResponseDto",
   "ConflictErrorResponseDto", "HealthResponseDto"}

\* UserController and HealthController are the repository's controllers;
\* ProductController is the README's example of an added module and
\* AdminUserController a subclass overriding getUsers
ControllerClasses ==
  {"UserController", "HealthController", "ProductController", "AdminUserController"}

Classes == DtoClasses \cup ControllerClasses

\* the `extends` clause of each class (ControllerBase carries no metadata)
Parent(c) ==
  CASE c = "UserResponseDto" -> "TimestampDto"
    [] c = "ValidationErrorResponseDto" -> "ErrorResponseDto"
    [] c = "ConflictErrorResponseDto" -> "ErrorResponseDto"
    [] c = "AdminUserController" -> "UserController"
    [] OTHER -> NoClass

\* Object.getOwnPropertyNames(prototype) without the constructor
OwnMethods(c) ==
  CASE c = "UserController" ->
         <<"getUsers", "getUserById", "createUser", "updateUser", "deleteUser">>
    [] c = "HealthController" -> <<"healthCheck">>
    [] c = "ProductController" -> <<"getProducts">>
    [] c = "AdminUserController" -> <<"getUsers">>
    [] OTHER -> <<>>

Methods ==
  {"getUsers", "getUserById", "createUser", "updateUser", "deleteUser",
   "healthCheck", "getProducts"}

\* dtoClass.name
ClassName(c) == c

(***************************************************************************)
(* Schemas.  {type: "string"} is TypeSchema("string"), {type: SomeDto} is  *)
(* ClassSchema("SomeDto").                                                 *)
(***************************************************************************)
TypeSchema(t) == [k |-> "type", type |-> t]
ClassSchema(c) == [k |-> "class", cls |-> c]
ArraySchema(items) == [k |-> "array", items |-> items]
RefSchema(name) == [k |-> "ref", ref |-> <<"#/components/schemas/", name>>]

(***************************************************************************)
(* reflect-metadata.  A store holds, per metadata key, the value defined   *)
(* on each target.  Values that a decorator reads back and mutates         *)
(* (property maps, response maps, parameter arrays) are objects: the       *)
(* store holds a reference, the object lives in the heap under the class   *)
(* that created it.                                                        *)
(***************************************************************************)
\* the first object on the prototype chain of c that has own metadata
RECURSIVE MetadataHolder(_, _)
MetadataHolder(own, c) ==
  IF c \notin DOMAIN own THEN None
  ELSE IF IsSome(own[c]) THEN Some(c)
  ELSE MetadataHolder(own, Parent(c))

\* Reflect.getMetadata(key, target[, propertyKey]): own, else inherited
OrdinaryGetMetadata(own, c) ==
  LET holder == MetadataHolder(own, c)
  IN IF IsSome(holder) THEN own[holder[1]] ELSE None

\* the metadata of one key for member m, by target
OfMember(store, m) == [c \in ControllerClasses |-> store[c][m]]

EmptyMeta ==
  [property  |-> [c \in DtoClasses |-> None],
   propObj   |-> [c \in DtoClasses |-> <<>>],
   tags      |-> [c \in ControllerClasses |-> None],
   route     |-> [c \in ControllerClasses |-> [m \in Methods |-> None]],
   operation |-> [c \in ControllerClasses |-> [m \in Methods |-> None]],
   body      |-> [c \in ControllerClasses |-> [m \in Methods |-> None]],
   response  |-> [c \in ControllerClasses |-> [m \in Methods |-> None]],
   respObj   |-> [c \in ControllerClasses |-> [m \in Methods |-> EmptyObject]],
   query     |-> [c \in ControllerClasses |-> [m \in Methods |-> None]],
   queryObj  |-> [c \in ControllerClasses |-> [m \in Methods |-> <<>>]],
   param     |-> [c \in ControllerClasses |-> [m \in Methods |-> None]],
   paramObj  |-> [c \in ControllerClasses |-> [m \in Methods |-> <<>>]]]

\* getApiProperties(target): the live property map, or a fresh {}
getApiProperties(meta, c) ==
  LET ref == OrdinaryGetMetadata(meta.property, c)
  IN IF IsSome(ref) THEN meta.propObj[ref[1]] ELSE <<>>

(***************************************************************************)
(* The decorator layer.                                                    *)
(***************************************************************************)
GetTypeFromMetadata(designType) ==
  CASE designType = "" -> "string"
    [] designType = "String" -> "string"
    [] designType = "Number" -> "number"
    [] designType = "Boolean" -> "boolean"
    [] designType = "Array" -> "array"
    [] designType = "Date" -> "string"
    [] OTHER -> "object"

ApiProperty(meta, cls, propertyKey, options) ==
  LET existing == OrdinaryGetMetadata(meta.property, cls)
      owner == IF IsSome(existing) THEN existing[1] ELSE cls
      propertySchema ==
        [type |-> IF options.type # "" THEN options.type
                  ELSE GetTypeFromMetadata(options.design),
         required |-> options.required,
         format |-> options.format,
         items |-> options.items]
  IN [meta EXCEPT !.propObj[owner] = PutKey(@, propertyKey, propertySchema),
                  !.property[cls] = Some(owner)]

ApiPropertyOptional(meta, cls, propertyKey, options) ==
  ApiProperty(meta, cls, propertyKey, [options EXCEPT !.required = "false"])

\* Object.keys(properties).filter((key) => properties[key].required)
RequiredKeys(properties) ==
  LET req == SelectSeq(properties, LAMBDA e : e.fact.required = "true")
  IN [i \in DOMAIN req |-> req[i].name]

GenerateSchemaFromClass(meta, type) ==
  LET ref == IF type.k = "class" THEN OrdinaryGetMetadata(meta.property, type.cls) ELSE None
      properties == IF IsSome(ref) THEN meta.propObj[ref[1]] ELSE <<>>
  IN IF type.k = "type" THEN TypeSchema(type.type)
     ELSE IF type.k = "class" /\ Len(properties) > 0
          THEN [k |-> "object", propsOf |-> ref[1], required |-> RequiredKeys(properties)]
          ELSE TypeSchema("object")

generateSchemaFromType(meta, type, isArray) ==
  IF isArray THEN ArraySchema(GenerateSchemaFromClass(meta, type))
  ELSE GenerateSchemaFromClass(meta, type)

\* ApiResponse that stores a map holding the declared status alone
ApiResponseAlone(meta, cls, propertyKey, options) ==
  LET existing == OrdinaryGetMetadata(OfMember(meta.response, propertyKey), cls)
      owner == IF IsSome(existing) THEN existing[1] ELSE cls
      responseSchema ==
        [description |-> options.description,
         schema |-> IF IsSome(options.typeArg)
                    THEN Some(generateSchemaFromType(meta, options.typeArg[1], options.isArray))
                    ELSE None]
  IN [meta EXCEPT !.respObj[owner][propertyKey] = PutEntry(EmptyObject, options.status,
                                                           responseSchema),
                  !.response[cls][propertyKey] = Some(owner)]

ApiResponse(meta, cls, propertyKey, options) ==
  LET existing == OrdinaryGetMetadata(OfMember(meta.response, propertyKey), cls)
      owner == IF IsSome(existing) THEN existing[1] ELSE cls
      responseSchema ==
        [description |-> options.description,
         schema |-> IF IsSome(options.typeArg)
                    THEN Some(generateSchemaFromType(meta, options.typeArg[1], options.isArray))
                    ELSE None]
  IN [meta EXCEPT !.respObj[owner][propertyKey] = PutEntry(@, options.status, responseSchema),
                  !.response[cls][propertyKey] = Some(owner)]

\* ApiOkResponse, ApiCreatedResponse, ... : the status and default description
PredefinedResponse(kind, options) ==
  LET st == CASE kind = "ApiOkResponse" -> 200
              [] kind = "ApiCreatedResponse" -> 201
              [] kind = "ApiBadRequestResponse" -> 400
              [] kind = "ApiUnauthorizedResponse" -> 401
              [] kind = "ApiNotFoundResponse" -> 404
              [] kind = "ApiConflictResponse" -> 409
              [] kind = "ApiInternalServerErrorResponse" -> 500
              [] kind = "ApiServiceUnavailableResponse" -> 503
              [] OTHER -> options.status
      dflt == CASE kind = "ApiBadRequestResponse" -> "Bad Request"
                [] kind = "ApiUnauthorizedResponse" -> "Unauthorized"
                [] kind = "ApiNotFoundResponse" -> "Not Found"
                [] kind = "ApiConflictResponse" -> "Conflict"
                [] kind = "ApiInternalServerErrorResponse" -> "Internal Server Error"
                [] kind = "ApiServiceUnavailableResponse" -> "Service Unavailable"
                [] OTHER -> ""
  IN [options EXCEPT !.status = st,
                     !.description = IF options.description # "" THEN options.description ELSE dflt]

\* ApiQuery that puts the new entry ahead of the stored ones
ApiQueryPrepending(meta, cls, propertyKey, options) ==
  LET querySchema ==
        [name |-> options.name, in |-> "query",
         required |-> (options.required = "true"),
         type |-> IF options.type # "" THEN options.type ELSE "string"]
      existing == OrdinaryGetMetadata(OfMember(meta.query, propertyKey), cls)
      owner == IF IsSome(existing) THEN existing[1] ELSE cls
  IN [meta EXCEPT !.queryObj[owner][propertyKey] = <<querySchema>> \o @,
                  !.query[cls][propertyKey] = Some(owner)]

ApiQuery(meta, cls, propertyKey, options) ==
  LET querySchema ==
        [name |-> options.name, in |-> "query",
         required |-> (options.required = "true"),
         type |-> IF options.type # "" THEN options.type ELSE "string"]
      existing == OrdinaryGetMetadata(OfMember(meta.query, propertyKey), cls)
      owner == IF IsSome(existing) THEN existing[1] ELSE cls
  IN [meta EXCEPT !.queryObj[owner][propertyKey] = Append(@, querySchema),
                  !.query[cls][propertyKey] = Some(owner)]

\* ApiParam with the default of ApiQuery: required: options.required || false
ApiParamRequiredWhenGiven(meta, cls, propertyKey, options) ==
  LET paramSchema ==
        [name |-> options.name, in |-> "path",
         required |-> (options.required = "true"),
         type |-> IF options.type # "" THEN options.type ELSE "string"]
      existing == OrdinaryGetMetadata(OfMember(meta.param, propertyKey), cls)
      owner == IF IsSome(existing) THEN existing[1] ELSE cls
  IN [meta EXCEPT !.paramObj[owner][propertyKey] = Append(@, paramSchema),
                  !.param[cls][propertyKey] = Some(owner)]

ApiParam(meta, cls, propertyKey, options) ==
  LET paramSchema ==
        [name |-> options.name, in |-> "path",
         required |-> (options.required # "false"),
         type |-> IF options.type # "" THEN options.type ELSE "string"]
      existing == OrdinaryGetMetadata(OfMember(meta.param, propertyKey), cls)
      owner == IF IsSome(existing) THEN existing[1] ELSE cls
  IN [meta EXCEPT !.paramObj[owner][propertyKey] = Append(@, paramSchema),
                  !.param[cls][propertyKey] = Some(owner)]

\* ApiBody that keeps the description of the body fact already stored
\* where the new declaration gives none
ApiBodyMerging(meta, cls, propertyKey, options) ==
  LET earlier == meta.body[cls][propertyKey]
      bodySchema ==
        [description |-> IF options.description = "" /\ IsSome(earlier)
                         THEN earlier[1].description ELSE options.description,
         required |-> (options.required = "true"),
         schema |-> IF IsSome(options.content) THEN options.content[1]
                    ELSE IF IsSome(options.typeArg) THEN Some(options.typeArg[1])
                    ELSE Some(TypeSchema("object"))]
  IN [meta EXCEPT !.body[cls][propertyKey] = Some(bodySchema)]

ApiBody(meta, cls, propertyKey, options) ==
  LET bodySchema ==
        [description |-> options.description,
         required |-> (options.required = "true"),
         schema |-> IF IsSome(options.content) THEN options.content[1]
                    ELSE IF IsSome(options.typeArg) THEN Some(options.typeArg[1])
                    ELSE Some(TypeSchema("object"))]
  IN [meta EXCEPT !.body[cls][propertyKey] = Some(bodySchema)]

ApiOperation(meta, cls, propertyKey, options) ==
  LET operationSchema ==
        [summary |-> options.summary, description |-> options.description,
         tags |-> options.tags]
  IN [meta EXCEPT !.operation[cls][propertyKey] = Some(operationSchema)]

ApiTags(meta, cls, tags) ==
  [meta EXCEPT !.tags[cls] = Some(tags)]

createRouteDecorator(meta, cls, propertyKey, method, path, middlewares) ==
  LET routeMetadata ==
        [path |-> path, method |-> ToUpperCase(method), middlewares |-> middlewares]
  IN [meta EXCEPT !.route[cls][propertyKey] = Some(routeMetadata)]

\* Get, Post, Put, Delete, Patch: only Post and Put pass middlewares on
\* the route decorators; Custom stands for a route fact written under the key
\* "swagger:route" the way the five decorators write theirs, for a verb
\* ("CUSTOM") that express's Router has no function for
RouteKinds == {"Get", "Post", "Put", "Delete", "Patch", "Custom"}

RouteVerb(kind) ==
  CASE kind = "Get" -> "get"
    [] kind = "Post" -> "post"
    [] kind = "Put" -> "put"
    [] kind = "Delete" -> "delete"
    [] kind = "Patch" -> "patch"
    [] kind = "Custom" -> "custom"

RouteMiddlewares(kind, middlewares) ==
  IF kind \in {"Post", "Put"} THEN middlewares ELSE None

(***************************************************************************)
(* SwaggerGenerator.  A route is {path, method, handler, controller,       *)
(* controllerClass}; handler is the method (its name), or undefined when   *)
(* addRoute was given none.  A path is the sequence of its tokens:         *)
(* "/:id" is <<"/", ":", "id">>, "" is <<>>.                               *)
(***************************************************************************)
addRoute(routes, path, method, handler, controller) ==
  Append(routes, [path |-> path, method |-> method, handler |-> handler,
                  controller |-> controller, controllerClass |-> controller])

getApiTags(meta, target) ==
  LET tags == OrdinaryGetMetadata(meta.tags, target)
  IN IF IsSome(tags) THEN tags[1] ELSE <<>>

\* a reference to the stored object a getter returns: the class holding it
HolderOf(store, controller, propertyKey) ==
  MetadataHolder(OfMember(store, propertyKey), controller)

getApiQueries(meta, controller, propertyKey) ==
  LET ref == OrdinaryGetMetadata(OfMember(meta.query, propertyKey), controller)
  IN IF IsSome(ref) THEN meta.queryObj[ref[1]][propertyKey] ELSE <<>>

getApiParams(meta, controller, propertyKey) ==
  LET ref == OrdinaryGetMetadata(OfMember(meta.param, propertyKey), controller)
  IN IF IsSome(ref) THEN meta.paramObj[ref[1]][propertyKey] ELSE <<>>

\* the class whose response map getApiResponses returns, if any
ResponsesRef(meta, controller, propertyKey) ==
  OrdinaryGetMetadata(OfMember(meta.response, propertyKey), controller)

getApiResponses(meta, controller, propertyKey) ==
  LET ref == ResponsesRef(meta, controller, propertyKey)
  IN IF IsSome(ref) THEN meta.respObj[ref[1]][propertyKey] ELSE EmptyObject

getApiOperation(meta, controller, propertyKey) ==
  LET op == OrdinaryGetMetadata(OfMember(meta.operation, propertyKey), controller)
  IN IF IsSome(op) THEN op[1] ELSE [summary |-> "", description |-> "", tags |-> None]

\* The operation object.  requestBody and each declared response are the
\* stored objects themselves, kept here as references into the store:
\* requestBody is the class holding the body fact, responses[status] the
\* class holding the response map (or "default" for the synthesized one).
generateOperation(meta, route) ==
  LET handler == route.handler[1]
      controller == route.controller
      operation == getApiOperation(meta, controller, handler)
      respRef == ResponsesRef(meta, controller, handler)
      responses == getApiResponses(meta, controller, handler)
      tags == getApiTags(meta, route.controllerClass)
      params == getApiParams(meta, controller, handler)
      queries == getApiQueries(meta, controller, handler)
      body == HolderOf(meta.body, controller, handler)
  IN [summary |-> operation.summary,
      description |-> operation.description,
      tags |-> IF Len(tags) > 0 THEN Some(tags) ELSE operation.tags,
      parameters |-> params \o queries,
      member |-> handler,
      requestBody |-> body,
      responses |-> IF DOMAIN responses = {}
                    THEN [st \in {200} |-> "default"]
                    ELSE [st \in DOMAIN responses |-> respRef[1]]]

OperationKey(route) == <<ToLowerCase(route.method), route.path>>

\* handler.name on an undefined handler is a TypeError
OperationThrows(route) == ~IsSome(route.handler)

RECURSIVE generateOperations(_, _)
generateOperations(meta, routes) ==
  IF routes = <<>> THEN EmptyObject
  ELSE LET n == Len(routes)
           route == routes[n]
       IN PutEntry(generateOperations(meta, SubSeq(routes, 1, n - 1)),
                   OperationKey(route), generateOperation(meta, route))

RECURSIVE collectDtoClasses(_, _)
collectDtoClasses(meta, schema) ==
  IF schema.k = "ref" THEN {}
  ELSE IF schema.k = "class" THEN {schema.cls}
  ELSE IF schema.k = "array" THEN collectDtoClasses(meta, schema.items)
  ELSE IF schema.k = "object"
       THEN LET properties == meta.propObj[schema.propsOf]
            IN UNION {IF properties[i].fact.type = "array" /\ IsSome(properties[i].fact.items)
                      THEN collectDtoClasses(meta, properties[i].fact.items[1])
                      ELSE {} : i \in DOMAIN properties}
  ELSE IF schema.k = "literal"
       THEN UNION {IF schema.properties[i].k = "array"
                   THEN collectDtoClasses(meta, schema.properties[i].items)
                   ELSE IF schema.properties[i].k = "class"
                        THEN {schema.properties[i].cls}
                        ELSE {} : i \in DOMAIN schema.properties}
  ELSE {}

\* the DTO classes generateSchemas collects from one route
RouteDtoClasses(meta, route) ==
  LET handler == route.handler[1]
      responses == getApiResponses(meta, route.controller, handler)
      body == OrdinaryGetMetadata(OfMember(meta.body, handler), route.controller)
  IN UNION {IF IsSome(responses[st].schema)
            THEN collectDtoClasses(meta, responses[st].schema[1])
            ELSE {} : st \in DOMAIN responses}
     \cup (IF IsSome(body) /\ IsSome(body[1].schema)
           THEN collectDtoClasses(meta, body[1].schema[1])
           ELSE {})

\* the component schema of a class keeps the live property map
ComponentSchema(meta, dtoClass) ==
  [type |-> "object",
   properties |-> getApiProperties(meta, dtoClass),
   required |-> RequiredKeys(getApiProperties(meta, dtoClass))]

\* generateSchemas without the test on the number of properties
generateSchemasOfEveryClass(meta, routes) ==
  LET dtoClasses == UNION {RouteDtoClasses(meta, routes[i]) : i \in DOMAIN routes}
  IN [n \in {ClassName(c) : c \in dtoClasses} |->
        ComponentSchema(meta, CHOOSE c \in dtoClasses : ClassName(c) = n)]

generateSchemas(meta, routes) ==
  LET dtoClasses == UNION {RouteDtoClasses(meta, routes[i]) : i \in DOMAIN routes}
      emitted == {c \in dtoClasses : Len(getApiProperties(meta, c)) > 0}
  IN [n \in {ClassName(c) : c \in emitted} |->
        ComponentSchema(meta, CHOOSE c \in emitted : ClassName(c) = n)]

(***************************************************************************)
(* SwaggerService.                                                         *)
(***************************************************************************)
routeMappings ==
  <<[controllerName |-> "HealthController", modulePath |-> <<"/", "health">>,
     swaggerPath |-> <<"/", "api", "/", "health">>],
    [controllerName |-> "UserController", modulePath |-> <<"/", "users">>,
     swaggerPath |-> <<"/", "api", "/", "users">>]>>

\* the tokens of path up to the next "/"
RECURSIVE SegmentLength(_)
SegmentLength(path) ==
  IF path = <<>> \/ Head(path) = "/" THEN 0 ELSE 1 + SegmentLength(Tail(path))

\* the replacement without the g flag: the first ":name" only
ReplaceFirstPathParam(path) ==
  LET at == {i \in DOMAIN path :
               path[i] = ":" /\ SegmentLength(SubSeq(path, i + 1, Len(path))) > 0}
  IN IF at = {} THEN path
     ELSE LET i == CHOOSE k \in at : \A j \in at : k <= j
              n == SegmentLength(SubSeq(path, i + 1, Len(path)))
          IN SubSeq(path, 1, i - 1) \o <<"{">> \o SubSeq(path, i + 1, i + n) \o <<"}">>
             \o SubSeq(path, i + n + 1, Len(path))

\* route.path.replace(/:([^/]+)/g, "{$1}")
RECURSIVE ReplacePathParams(_)
ReplacePathParams(path) ==
  IF path = <<>> THEN <<>>
  ELSE IF Head(path) = ":" /\ SegmentLength(Tail(path)) > 0
       THEN LET n == SegmentLength(Tail(path))
            IN <<"{">> \o SubSeq(path, 2, n + 1) \o <<"}">>
               \o ReplacePathParams(SubSeq(path, n + 2, Len(path)))
       ELSE <<Head(path)>> \o ReplacePathParams(Tail(path))

SwaggerPath(route) ==
  LET found == {i \in DOMAIN routeMappings :
                  ClassName(route.controller) = routeMappings[i].controllerName}
      base == IF found = {} THEN <<"/", "api">>
              ELSE routeMappings[CHOOSE i \in found : \A j \in found : i <= j].swaggerPath
  IN IF route.path # <<"/">> THEN base \o ReplacePathParams(route.path) ELSE base

\* what the routes.forEach of one generator does, in order: the path and
\* verb written, and the operation object stored there
GeneratorEntries(meta, routes) ==
  LET operations == generateOperations(meta, routes)
  IN [i \in DOMAIN routes |->
        [path |-> SwaggerPath(routes[i]),
         method |-> ToLowerCase(routes[i].method),
         operation |-> operations[OperationKey(routes[i])]]]

RECURSIVE AllEntries(_, _, _)
AllEntries(meta, gens, routesOf) ==
  IF gens = <<>> THEN <<>>
  ELSE GeneratorEntries(meta, routesOf[Head(gens)]) \o AllEntries(meta, Tail(gens), routesOf)

\* the paths object had every write begun a new path object: a path keeps
\* the verb written last only
SpecPathsReplacingEntry(entries) ==
  LET last(p) == CHOOSE i \in DOMAIN entries :
                   /\ entries[i].path = p
                   /\ \A j \in DOMAIN entries : entries[j].path = p => j <= i
  IN [p \in {entries[i].path : i \in DOMAIN entries} |->
        [v \in {entries[last(p)].method} |-> entries[last(p)].operation]]

\* if (!spec.paths[swaggerPath]) spec.paths[swaggerPath] = {};
\* spec.paths[swaggerPath][method] = operation, later writes replacing earlier
SpecPaths(entries) ==
  LET last(p, v) == CHOOSE i \in DOMAIN entries :
                      /\ entries[i].path = p /\ entries[i].method = v
                      /\ \A j \in DOMAIN entries :
                           (entries[j].path = p /\ entries[j].method = v) => j <= i
  IN [p \in {entries[i].path : i \in DOMAIN entries} |->
        [v \in {entries[i].method : i \in {j \in DOMAIN entries : entries[j].path = p}} |->
           entries[last(p, v)].operation]]

\* allTags.add on a list that keeps every occurrence
AddAllRepeating(seen, tags) == seen \o tags

\* allTags.add(tag) for every tag of every operation, in order
RECURSIVE AddAll(_, _)
AddAll(seen, tags) ==
  IF tags = <<>> THEN seen
  ELSE AddAll(IF \E i \in DOMAIN seen : seen[i] = Head(tags) THEN seen
              ELSE Append(seen, Head(tags)), Tail(tags))

RECURSIVE AllTags(_, _)
AllTags(seen, entries) ==
  IF entries = <<>> THEN seen
  ELSE AllTags(IF IsSome(Head(entries).operation.tags)
               THEN AddAll(seen, Head(entries).operation.tags[1]) ELSE seen,
               Tail(entries))

\* Object.assign(spec.components.schemas, schemas) per generator
RECURSIVE MergedSchemas(_, _, _)
MergedSchemas(meta, gens, routesOf) ==
  IF gens = <<>> THEN EmptyObject
  ELSE LET n == Len(gens)
           before == MergedSchemas(meta, SubSeq(gens, 1, n - 1), routesOf)
           schemas == generateSchemas(meta, routesOf[gens[n]])
       IN [k \in (DOMAIN before) \cup (DOMAIN schemas) |->
             IF k \in DOMAIN schemas THEN schemas[k] ELSE before[k]]

\* schema = {$ref} when schema.type is a class
ToReference(schema) ==
  IF IsSome(schema) /\ schema[1].k = "class"
  THEN Some(RefSchema(ClassName(schema[1].cls)))
  ELSE schema

\* processSchemaReferences writes through the operation objects of spec.paths
\* into the request-body and response objects they share with the store
processSchemaReferences(meta, paths) ==
  LET ops == UNION {{paths[p][v] : v \in DOMAIN paths[p]} : p \in DOMAIN paths}
  IN [meta EXCEPT
        !.body = [c \in ControllerClasses |-> [m \in Methods |->
           IF \E op \in ops : op.member = m /\ op.requestBody = Some(c)
           THEN Some([meta.body[c][m][1] EXCEPT !.schema = ToReference(@)])
           ELSE meta.body[c][m]]],
        !.respObj = [c \in ControllerClasses |-> [m \in Methods |->
           [st \in DOMAIN meta.respObj[c][m] |->
              IF \E op \in ops : /\ op.member = m
                                 /\ st \in DOMAIN op.responses
                                 /\ op.responses[st] = c
              THEN [meta.respObj[c][m][st] EXCEPT !.schema = ToReference(@)]
              ELSE meta.respObj[c][m][st]]]]]

(***************************************************************************)
(* The document as it reads (and serializes) when generateSpec returns:    *)
(* every reference into the store replaced by the object it points to.     *)
(***************************************************************************)
RECURSIVE ReadSchema(_, _)
ReadSchema(meta, schema) ==
  IF schema.k = "object"
  THEN [k |-> "object", properties |-> meta.propObj[schema.propsOf],
        required |-> schema.required]
  ELSE IF schema.k = "array" THEN ArraySchema(ReadSchema(meta, schema.items))
  ELSE schema

ReadContent(meta, fact) ==
  [fact EXCEPT !.schema = IF IsSome(@) THEN Some(ReadSchema(meta, @[1])) ELSE None]

\* the synthesized response without its schema
DefaultResponseWithoutSchema == [description |-> "Success", schema |-> None]

DefaultResponse == [description |-> "Success", schema |-> Some(TypeSchema("object"))]

ReadOperation(meta, op) ==
  [summary |-> op.summary,
   description |-> op.description,
   tags |-> op.tags,
   parameters |-> op.parameters,
   requestBody |-> IF IsSome(op.requestBody)
                   THEN Some(ReadContent(meta, meta.body[op.requestBody[1]][op.member][1]))
                   ELSE None,
   responses |-> [st \in DOMAIN op.responses |->
                    IF op.responses[st] = "default" THEN DefaultResponse
                    ELSE ReadContent(meta, meta.respObj[op.responses[st]][op.member][st])]]

\* generateSpec: whether it threw, the document returned and the store it leaves
generateSpec(meta, gens, routesOf) ==
  IF \E i \in DOMAIN gens : \E j \in DOMAIN routesOf[gens[i]] :
        OperationThrows(routesOf[gens[i]][j])
  THEN [threw |-> TRUE, spec |-> None, meta |-> meta]
  ELSE LET entries == AllEntries(meta, gens, routesOf)
           paths == SpecPaths(entries)
           tags == AllTags(<<>>, entries)
           schemas == MergedSchemas(meta, gens, routesOf)
           after == processSchemaReferences(meta, paths)
       IN [threw |-> FALSE,
           spec |-> Some([openapi |-> "3.0.3",
                          paths |-> [p \in DOMAIN paths |-> [v \in DOMAIN paths[p] |->
                                       ReadOperation(after, paths[p][v])]],
                          components |-> [schemas |-> schemas],
                          tags |-> [i \in DOMAIN tags |-> [name |-> tags[i]]]]),
           meta |-> after]

(***************************************************************************)
(* The declarations of the program: each is one decorator written on a     *)
(* class or member, with the options given (the rest undefined).           *)
(***************************************************************************)
NoOptions ==
  [name |-> "", type |-> "", design |-> "", required |-> "undef", format |-> "",
   items |-> None, status |-> 0, description |-> "", isArray |-> FALSE,
   typeArg |-> None, content |-> None, tags |-> None, summary |-> "",
   path |-> <<>>, middlewares |-> None]

Decorator(kind, cls, member, options) ==
  [kind |-> kind, cls |-> cls, member |-> member, options |-> options]

Reverse(seq) == [i \in DOMAIN seq |-> seq[Len(seq) + 1 - i]]

\* TypeScript applies the decorators written on one member bottom-to-top
MemberDecorators(written) == Reverse(written)

Property(cls, key, design, required) ==
  Decorator("ApiProperty", cls, key,
            [NoOptions EXCEPT !.design = design, !.required = required])

PropertyOptional(cls, key, design) ==
  Decorator("ApiPropertyOptional", cls, key, [NoOptions EXCEPT !.design = design])

Route(kind, cls, member, path, middlewares) ==
  Decorator(kind, cls, member, [NoOptions EXCEPT !.path = path, !.middlewares = middlewares])

Operation(cls, member, summary, description) ==
  Decorator("ApiOperation", cls, member,
            [NoOptions EXCEPT !.summary = summary, !.description = description])

Query(cls, member, name, type) ==
  Decorator("ApiQuery", cls, member, [NoOptions EXCEPT !.name = name, !.type = type])

Param(cls, member, name, type) ==
  Decorator("ApiParam", cls, member, [NoOptions EXCEPT !.name = name, !.type = type])

Body(cls, member, dto, description) ==
  Decorator("ApiBody", cls, member,
            [NoOptions EXCEPT !.typeArg = Some(ClassSchema(dto)), !.description = description])

Response(kind, cls, member, description, typeArg) ==
  Decorator(kind, cls, member,
            [NoOptions EXCEPT !.description = description, !.typeArg = typeArg])

Tags(cls, tags) ==
  Decorator("ApiTags", cls, "", [NoOptions EXCEPT !.tags = Some(tags)])

Dto(c) == Some(ClassSchema(c))

ErrorDtoDeclarations ==
  <<Property("ErrorResponseDto", "error", "String", "true"),
    Property("ErrorResponseDto", "message", "String", "true"),
    Property("ErrorResponseDto", "details", "Array", "false"),
    Property("ValidationErrorResponseDto", "details", "Array", "true"),
    Property("ConflictErrorResponseDto", "error", "String", "true")>>

TimestampDtoDeclarations ==
  <<Decorator("ApiProperty", "TimestampDto", "createdAt",
              [NoOptions EXCEPT !.design = "String", !.format = "date-time"]),
    Decorator("ApiProperty", "TimestampDto", "updatedAt",
              [NoOptions EXCEPT !.design = "String", !.format = "date-time"])>>

UserResponseDtoDeclarations ==
  <<Property("UserResponseDto", "id", "String", "undef"),
    Property("UserResponseDto", "email", "String", "undef"),
    Property("UserResponseDto", "name", "Object", "undef"),
    Property("UserResponseDto", "isActive", "Boolean", "undef")>>

UserListResponseDtoDeclarations ==
  <<Decorator("ApiProperty", "UserListResponseDto", "data",
              [NoOptions EXCEPT !.design = "Array", !.type = "array",
                                !.items = Some(TypeSchema("object"))]),
    Property("UserListResponseDto", "total", "Number", "undef"),
    Property("UserListResponseDto", "page", "Number", "undef"),
    Property("UserListResponseDto", "limit", "Number", "undef")>>

CreateUserDtoDeclarations ==
  <<Property("CreateUserDto", "email", "String", "true"),
    Property("CreateUserDto", "name", "String", "true"),
    PropertyOptional("CreateUserDto", "password", "String"),
    PropertyOptional("CreateUserDto", "isActive", "Boolean")>>

UpdateUserDtoDeclarations ==
  <<PropertyOptional("UpdateUserDto", "email", "String"),
    PropertyOptional("UpdateUserDto", "name", "String"),
    PropertyOptional("UpdateUserDto", "isActive", "Boolean")>>

IdPath == <<"/", ":", "id">>

UserControllerDeclarations ==
  MemberDecorators(
    <<Route("Get", "UserController", "getUsers", <<>>, None),
      Operation("UserController", "getUsers", "Get user list",
                "Get all user information with pagination"),
      Query("UserController", "getUsers", "page", "integer"),
      Query("UserController", "getUsers", "limit", "integer"),
      Response("ApiOkResponse", "UserController", "getUsers",
               "Successfully retrieved user list", Dto("UserListResponseDto")),
      Response("ApiBadRequestResponse", "UserController", "getUsers",
               "Request parameter error", Dto("ErrorResponseDto"))>>)
  \o MemberDecorators(
    <<Route("Get", "UserController", "getUserById", IdPath, None),
      Operation("UserController", "getUserById", "Get single user",
                "Get user detailed information by user ID"),
      Param("UserController", "getUserById", "id", "string"),
      Response("ApiOkResponse", "UserController", "getUserById",
               "Successfully retrieved user information", Dto("UserResponseDto")),
      Response("ApiNotFoundResponse", "UserController", "getUserById",
               "User not found", Dto("ErrorResponseDto"))>>)
  \o MemberDecorators(
    <<Route("Post", "UserController", "createUser", <<>>,
            Some(<<"validateDto(CreateUserDto)">>)),
      Operation("UserController", "createUser", "Create user", "Create a new user"),
      Body("UserController", "createUser", "CreateUserDto", "User creation data"),
      Response("ApiCreatedResponse", "UserController", "createUser",
               "User created successfully", Dto("UserResponseDto")),
      Response("ApiBadRequestResponse", "UserController", "createUser",
               "Request data validation failed", Dto("ValidationErrorResponseDto")),
      Response("ApiConflictResponse", "UserController", "createUser",
               "Email already exists", Dto("ConflictErrorResponseDto"))>>)
  \o MemberDecorators(
    <<Route("Put", "UserController", "updateUser", IdPath,
            Some(<<"validateDto(UpdateUserDto)">>)),
      Operation("UserController", "updateUser", "Update user",
                "Update specified user information"),
      Param("UserController", "updateUser", "id", "string"),
      Body("UserController", "updateUser", "UpdateUserDto", "User update data"),
      Response("ApiOkResponse", "UserController", "updateUser",
               "User updated successfully", Dto("UserResponseDto")),
      Response("ApiNotFoundResponse", "UserController", "updateUser",
               "User not found", Dto("ErrorResponseDto")),
      Response("ApiBadRequestResponse", "UserController", "updateUser",
               "Request data validation failed", Dto("ValidationErrorResponseDto")),
      Response("ApiConflictResponse", "UserController", "updateUser",
               "Email is already used by another user", Dto("ConflictErrorResponseDto"))>>)
  \o MemberDecorators(
    <<Route("Delete", "UserController", "deleteUser", IdPath, None),
      Operation("UserController", "deleteUser", "Delete user", "Delete specified user"),
      Param("UserController", "deleteUser", "id", "string"),
      Response("ApiOkResponse", "UserController", "deleteUser",
               "User deleted successfully", None),
      Response("ApiNotFoundResponse", "UserController", "deleteUser",
               "User not found", Dto("ErrorResponseDto"))>>)
  \o <<Tags("UserController", <<"Users">>)>>

HealthResponseDtoDeclarations ==
  <<Property("HealthResponseDto", "ok", "Boolean", "undef"),
    Property("HealthResponseDto", "uptime", "Number", "undef"),
    Decorator("ApiProperty", "HealthResponseDto", "timestamp",
              [NoOptions EXCEPT !.design = "String", !.format = "date-time"]),
    Decorator("ApiProperty", "HealthResponseDto", "database",
              [NoOptions EXCEPT !.design = "Object", !.type = "object"])>>

HealthControllerDeclarations ==
  MemberDecorators(
    <<Route("Get", "HealthController", "healthCheck", <<>>, None),
      Operation("HealthController", "healthCheck", "Health check",
                "Check API service status and database connection"),
      Response("ApiOkResponse", "HealthController", "healthCheck",
               "Service healthy", Dto("HealthResponseDto")),
      Response("ApiServiceUnavailableResponse", "HealthController", "healthCheck",
               "Service unhealthy", None)>>)
  \o <<Tags("HealthController", <<"Health">>)>>

\* the decorators of the repository in the order module loading applies them
RepositoryDeclarations ==
  ErrorDtoDeclarations \o TimestampDtoDeclarations \o UserResponseDtoDeclarations
  \o UserListResponseDtoDeclarations \o CreateUserDtoDeclarations
  \o UpdateUserDtoDeclarations \o UserControllerDeclarations
  \o HealthResponseDtoDeclarations \o HealthControllerDeclarations

\* the decorators a program under the free scenario may write: on the
\* repository's classes, on a controller derived from UserController and on
\* the README's ProductController (neither has a routeMappings entry)
FreeDeclarations ==
  {Property("CreateUserDto", "email", "String", "true"),
   Property("UserResponseDto", "id", "String", "undef"),
   Route("Get", "UserController", "getUsers", <<>>, None),
   Route("Get", "UserController", "getUserById", <<"/">>, None),
   Route("Post", "UserController", "createUser", <<>>, None),
   Route("Get", "ProductController", "getProducts", <<>>, None),
   Route("Custom", "ProductController", "getProducts", <<>>, None),
   Query("UserController", "getUsers", "page", "integer"),
   Decorator("ApiQuery", "AdminUserController", "getUsers",
             [NoOptions EXCEPT !.name = "limit", !.type = "integer", !.required = "true"]),
   Decorator("ApiQuery", "UserController", "getUsers",
             [NoOptions EXCEPT !.name = "search", !.required = "false"]),
   Decorator("ApiParam", "UserController", "getUserById",
             [NoOptions EXCEPT !.name = "id", !.required = "false"]),
   Decorator("ApiParam", "UserController", "getUserById",
             [NoOptions EXCEPT !.name = "id", !.required = "true"]),
   Body("UserController", "createUser", "CreateUserDto", "User creation data"),
   Decorator("ApiBody", "UserController", "createUser",
             [NoOptions EXCEPT !.content = Some(Some(ArraySchema(ClassSchema("CreateUserDto"))))]),
   Decorator("ApiOkResponse", "UserController", "getUsers",
             [NoOptions EXCEPT !.typeArg = Dto("UserResponseDto"), !.isArray = TRUE]),
   Response("ApiOkResponse", "AdminUserController", "getUsers", "Admin list", None)}

\* declarations that write a fact of one method or class more than once, a
\* route with a chain of two middlewares, tags on a method and on a class,
\* and path and query parameters on one method
AnnotatedDeclarations ==
  {Route("Post", "UserController", "createUser", <<>>,
         Some(<<"validateDto(UpdateUserDto)", "validateDto(CreateUserDto)">>)),
   Route("Get", "UserController", "createUser", <<"/">>, None),
   Route("Get", "UserController", "getUsers", <<>>, None),
   Route("Get", "UserController", "getUserById", <<"/">>, None),
   Decorator("ApiOperation", "UserController", "getUsers",
             [NoOptions EXCEPT !.tags = Some(<<"Listing">>)]),
   Operation("UserController", "getUsers", "Get user list", "All users"),
   Tags("UserController", <<"Users", "Accounts">>),
   Body("UserController", "createUser", "CreateUserDto", "User creation data"),
   Decorator("ApiBody", "UserController", "createUser",
             [NoOptions EXCEPT !.required = "true"]),
   Param("UserController", "getUserById", "id", "string"),
   Query("UserController", "getUserById", "include", "string"),
   Query("UserController", "getUserById", "fields", "string")}

\* the controller classes a scenario's program defines
DefinedControllers(s) ==
  IF s = "repository" THEN {"UserController", "HealthController"}
  ELSE IF s = "annotated" THEN {"UserController", "AdminUserController"}
  ELSE {"UserController", "AdminUserController", "ProductController"}

(***************************************************************************)
(* State.                                                                  *)
(***************************************************************************)
VARIABLES
  scenario,     \* "repository": the repository's own declarations; "free": any
  loaded,       \* number of decorators applied so far
  meta,         \* the metadata store
  declared,     \* history: the DTO class each stored body/response fact was declared with
  instances,    \* the controller classes constructed (one instance each)
  router,       \* per controller, the handlers registered on its express Router
  routes,       \* per controller, the routes of its SwaggerGenerator
  generators,   \* SwaggerService.generators (by controller)
  added,        \* number of direct addRoute calls
  results,      \* the outcome of each generateSpec call, in order
  docs,         \* AppModule.setupSwagger: how it ended and the spec its routes hold
  users,        \* the user table behind prismaService.user
  inflight,     \* the requests whose handler awaits the data access
  issued,       \* number of requests received
  last          \* what the latest request step did and answered

\* the state of the running application
appVars == <<docs, users, inflight, issued, last>>

vars == <<scenario, loaded, meta, declared, instances, router, routes, generators,
          added, results, docs, users, inflight, issued, last>>

Init ==
  /\ scenario \in {"repository", "free"}
  /\ loaded = 0
  /\ meta = EmptyMeta
  /\ declared = {}
  /\ instances = {}
  /\ router = [c \in ControllerClasses |-> <<>>]
  /\ routes = [c \in ControllerClasses |-> <<>>]
  /\ generators = <<>>
  /\ added = 0
  /\ results = <<>>
  /\ docs = [state |-> "none", spec |-> None]
  /\ users = {}
  /\ inflight = {}
  /\ issued = 0
  /\ last = None

\* the decorators that module loading may apply next
Pending ==
  IF instances # {} THEN {}
  ELSE IF scenario = "repository"
       THEN (IF loaded < Len(RepositoryDeclarations)
             THEN {RepositoryDeclarations[loaded + 1]} ELSE {})
       ELSE (IF loaded < MaxDecl
             THEN (IF scenario = "annotated" THEN AnnotatedDeclarations
                   ELSE FreeDeclarations)
             ELSE {})

LoadDone == scenario # "repository" \/ loaded = Len(RepositoryDeclarations)

Loaded(next) ==
  /\ meta' = next
  /\ loaded' = loaded + 1
  /\ UNCHANGED <<scenario, instances, router, routes, generators, added, results>>
  /\ UNCHANGED appVars

\* the DTO classes a declared schema names
RECURSIVE SchemaClasses(_)
SchemaClasses(schema) ==
  IF schema.k = "class" THEN {schema.cls}
  ELSE IF schema.k = "array" THEN SchemaClasses(schema.items)
  ELSE IF schema.k = "literal"
       THEN UNION {SchemaClasses(schema.properties[i]) : i \in DOMAIN schema.properties}
  ELSE {}

\* record that the fact stored under (holder, member, slot) names these
\* classes; slot is the status code of a response, 0 for the request body
Declare(holder, member, slot, classes, isArray) ==
  declared' = {d \in declared : ~(d.holder = holder /\ d.member = member /\ d.slot = slot)}
              \cup {[holder |-> holder, member |-> member, slot |-> slot, dto |-> c,
                      isArray |-> isArray] : c \in classes}

ApplyApiProperty ==
  \E d \in Pending :
    /\ d.kind \in {"ApiProperty", "ApiPropertyOptional"}
    /\ Loaded(IF d.kind = "ApiProperty"
              THEN ApiProperty(meta, d.cls, d.member, d.options)
              ELSE ApiPropertyOptional(meta, d.cls, d.member, d.options))
    /\ UNCHANGED declared

ApplyApiResponse ==
  \E d \in Pending :
    /\ d.kind \in {"ApiResponse", "ApiOkResponse", "ApiCreatedResponse",
                   "ApiBadRequestResponse", "ApiUnauthorizedResponse",
                   "ApiNotFoundResponse", "ApiConflictResponse",
                   "ApiInternalServerErrorResponse", "ApiServiceUnavailableResponse"}
    /\ LET options == PredefinedResponse(d.kind, d.options)
           existing == OrdinaryGetMetadata(OfMember(meta.response, d.member), d.cls)
       IN /\ Loaded(ApiResponse(meta, d.cls, d.member, options))
          /\ Declare(IF IsSome(existing) THEN existing[1] ELSE d.cls, d.member,
                     options.status,
                     IF IsSome(options.typeArg) THEN SchemaClasses(options.typeArg[1]) ELSE {},
                     options.isArray)

ApplyApiQuery ==
  \E d \in Pending :
    /\ d.kind = "ApiQuery"
    /\ Loaded(ApiQuery(meta, d.cls, d.member, d.options))
    /\ UNCHANGED declared

ApplyApiParam ==
  \E d \in Pending :
    /\ d.kind = "ApiParam"
    /\ Loaded(ApiParam(meta, d.cls, d.member, d.options))
    /\ UNCHANGED declared

ApplyApiBody ==
  \E d \in Pending :
    /\ d.kind = "ApiBody"
    /\ Loaded(ApiBody(meta, d.cls, d.member, d.options))
    /\ Declare(d.cls, d.member, 0,
               IF IsSome(d.options.content)
               THEN (IF IsSome(d.options.content[1])
                     THEN SchemaClasses(d.options.content[1][1]) ELSE {})
               ELSE IF IsSome(d.options.typeArg)
                    THEN SchemaClasses(d.options.typeArg[1]) ELSE {},
               FALSE)

ApplyApiOperation ==
  \E d \in Pending :
    /\ d.kind = "ApiOperation"
    /\ Loaded(ApiOperation(meta, d.cls, d.member, d.options))
    /\ UNCHANGED declared

ApplyApiTags ==
  \E d \in Pending :
    /\ d.kind = "ApiTags"
    /\ Loaded(ApiTags(meta, d.cls, d.options.tags[1]))
    /\ UNCHANGED declared

ApplyRoute ==
  \E d \in Pending :
    /\ d.kind \in RouteKinds
    /\ Loaded(createRouteDecorator(meta, d.cls, d.member, RouteVerb(d.kind),
                                   d.options.path,
                                   RouteMiddlewares(d.kind, d.options.middlewares)))
    /\ UNCHANGED declared

(***************************************************************************)
(* ControllerBase: the constructor runs setupRoutes.                       *)
(***************************************************************************)
\* the verbs for which express's Router has a registration function
RouterMethods == {"get", "post", "put", "delete", "patch", "head", "options", "all"}

\* setupRoutes registering each chain's middlewares last-written first
RECURSIVE setupRoutesChainReversed(_, _, _)
setupRoutesChainReversed(m, c, methodNames) ==
  IF methodNames = <<>> THEN [router |-> <<>>, routes |-> <<>>]
  ELSE LET n == Len(methodNames)
           before == setupRoutesChainReversed(m, c, SubSeq(methodNames, 1, n - 1))
           methodName == methodNames[n]
           routeMetadata == OrdinaryGetMetadata(OfMember(m.route, methodName), c)
           method == ToLowerCase(routeMetadata[1].method)
           handler == [name |-> methodName, this |-> c]
           chain == IF IsSome(routeMetadata[1].middlewares)
                       /\ Len(routeMetadata[1].middlewares[1]) > 0
                    THEN Reverse(routeMetadata[1].middlewares[1]) \o <<handler>>
                    ELSE <<handler>>
       IN IF ~IsSome(routeMetadata) THEN before
          ELSE [router |-> IF method \in RouterMethods
                           THEN Append(before.router,
                                       [method |-> method, path |-> routeMetadata[1].path,
                                        handlers |-> chain])
                           ELSE before.router,
                routes |-> addRoute(before.routes, routeMetadata[1].path, method,
                                    Some(methodName), c)]

\* setupRoutes over the given method names: the router's registrations and
\* the generator's routes it leaves
RECURSIVE setupRoutes(_, _, _)
setupRoutes(m, c, methodNames) ==
  IF methodNames = <<>> THEN [router |-> <<>>, routes |-> <<>>]
  ELSE LET n == Len(methodNames)
           before == setupRoutes(m, c, SubSeq(methodNames, 1, n - 1))
           methodName == methodNames[n]
           routeMetadata == OrdinaryGetMetadata(OfMember(m.route, methodName), c)
           method == ToLowerCase(routeMetadata[1].method)
           handler == [name |-> methodName, this |-> c]
           chain == IF IsSome(routeMetadata[1].middlewares)
                       /\ Len(routeMetadata[1].middlewares[1]) > 0
                    THEN routeMetadata[1].middlewares[1] \o <<handler>>
                    ELSE <<handler>>
       IN IF ~IsSome(routeMetadata) THEN before
          ELSE [router |-> IF method \in RouterMethods
                           THEN Append(before.router,
                                       [method |-> method, path |-> routeMetadata[1].path,
                                        handlers |-> chain])
                           ELSE before.router,
                routes |-> addRoute(before.routes, routeMetadata[1].path, method,
                                    Some(methodName), c)]

\* AppModule.setupRoutes: constructs every controller the program defines;
\* each constructor runs setupRoutes on the new instance
AppSetupRoutes ==
  /\ instances = {}
  /\ LoadDone
  /\ LET bound(c) == setupRoutes(meta, c, OwnMethods(c))
         built == DefinedControllers(scenario)
     IN /\ router' = [c \in ControllerClasses |->
                        IF c \in built THEN bound(c).router ELSE router[c]]
        /\ routes' = [c \in ControllerClasses |->
                        IF c \in built THEN bound(c).routes ELSE routes[c]]
        /\ instances' = built
  /\ UNCHANGED <<scenario, loaded, meta, declared, generators, added, results>>
  /\ UNCHANGED appVars

\* a path with two parameters
PostsPath == <<"/", ":", "id", "/", "posts", "/", ":", "postId">>

\* the paths given to direct addRoute calls
AddRoutePaths == {<<>>, <<"/">>, PostsPath}

\* a direct call of the public SwaggerGenerator.addRoute on a controller's
\* generator, made by the application around the repository's controllers
AddRoute(c, path, method, handler) ==
  /\ scenario = "repository"
  /\ c \in instances
  /\ results = <<>>
  /\ added < MaxAddRoute
  /\ routes' = [routes EXCEPT ![c] = addRoute(@, path, method, handler, c)]
  /\ added' = added + 1
  /\ UNCHANGED <<scenario, loaded, meta, declared, instances, router, generators, results>>
  /\ UNCHANGED appVars

\* SwaggerService.addGenerator, called once per controller and before the
\* document is generated, as AppModule.setupSwagger does
AddGenerator(c) ==
  /\ c \in instances
  /\ results = <<>>
  /\ \A g \in DOMAIN generators : generators[g] # c
  /\ Len(generators) < MaxGenerators
  /\ generators' = Append(generators, c)
  /\ UNCHANGED <<scenario, loaded, meta, declared, instances, router, routes, added, results>>
  /\ UNCHANGED appVars

GenerateSpec ==
  /\ Len(results) < MaxGenerate
  /\ instances # {}
  /\ LET r == generateSpec(meta, generators, routes)
     IN /\ meta' = r.meta
        /\ results' = Append(results,
                             [threw |-> r.threw, spec |-> r.spec, loaded |-> loaded,
                              generators |-> generators, routes |-> routes])
  /\ UNCHANGED <<scenario, loaded, declared, instances, router, routes, generators, added>>
  /\ UNCHANGED appVars

Next ==
  \/ ApplyApiProperty
  \/ ApplyApiResponse
  \/ ApplyApiQuery
  \/ ApplyApiParam
  \/ ApplyApiBody
  \/ ApplyApiOperation
  \/ ApplyApiTags
  \/ ApplyRoute
  \/ AppSetupRoutes
  \/ \E c \in ControllerClasses, path \in AddRoutePaths, method \in {"GET", "get"} :
       \E handler \in {None, Some(OwnMethods(c)[1])} : AddRoute(c, path, method, handler)
  \/ \E c \in ControllerClasses : AddGenerator(c)
  \/ GenerateSpec

Spec == Init /\ [][Next]_vars

\* the program of the annotated declarations
AnnotatedInit ==
  /\ scenario = "annotated"
  /\ loaded = 0
  /\ meta = EmptyMeta
  /\ declared = {}
  /\ instances = {}
  /\ router = [c \in ControllerClasses |-> <<>>]
  /\ routes = [c \in ControllerClasses |-> <<>>]
  /\ generators = <<>>
  /\ added = 0
  /\ results = <<>>
  /\ docs = [state |-> "none", spec |-> None]
  /\ users = {}
  /\ inflight = {}
  /\ issued = 0
  /\ last = None

AnnotatedNext ==
  \/ ApplyApiQuery
  \/ ApplyApiParam
  \/ ApplyApiBody
  \/ ApplyApiOperation
  \/ ApplyApiTags
  \/ ApplyRoute
  \/ AppSetupRoutes
  \/ \E c \in ControllerClasses : AddGenerator(c)
  \/ GenerateSpec

AnnotatedSpec == AnnotatedInit /\ [][AnnotatedNext]_vars

(***************************************************************************)
(* Vocabulary of the properties.                                           *)
(***************************************************************************)
\* the generateSpec calls that returned a document
Returned == {i \in DOMAIN results : ~results[i].threw}

DocumentOf(i) == results[i].spec[1]

\* the routes recorded in the generators registered when call i was made
Recorded(i) ==
  UNION {{results[i].routes[results[i].generators[g]][j] :
            j \in DOMAIN results[i].routes[results[i].generators[g]]} :
         g \in DOMAIN results[i].generators}

SamePair(q, r) ==
  SwaggerPath(q) = SwaggerPath(r) /\ ToLowerCase(q.method) = ToLowerCase(r.method)

\* no other recorded route computes the (path, verb) pair of r
Sole(i, r) ==
  \A q \in Recorded(i) :
    SamePair(q, r) => (q.handler = r.handler /\ q.controller = r.controller)

\* the routes the constructor of c records for the declarations loaded
BoundRoutes(c) == setupRoutes(meta, c, OwnMethods(c)).routes

UsersPath == <<"/", "api", "/", "users">>

\* call i documented UserController as its constructor bound it
UsersDocumented(i) ==
  /\ i \in Returned
  /\ scenario = "repository"
  /\ \E g \in DOMAIN results[i].generators : results[i].generators[g] = "UserController"
  /\ \A g \in DOMAIN results[i].generators :
       results[i].routes[results[i].generators[g]] = BoundRoutes(results[i].generators[g])

\* the declared facts (by class given as type) behind the facts route r reads
DeclaredFor(r) ==
  {d \in declared :
     /\ d.member = r.handler[1]
     /\ IF d.slot = 0
        THEN HolderOf(meta.body, r.controller, r.handler[1]) = Some(d.holder)
        ELSE ResponsesRef(meta, r.controller, r.handler[1]) = Some(d.holder)}

(***************************************************************************)
(* C1.  Two generateSpec calls on the same service, with no annotation     *)
(* applied, no generator added and no route recorded between them, return  *)
(* identical documents.                                                    *)
(***************************************************************************)
GenerateSpecIdempotent ==
  \A i, j \in Returned :
    (/\ i < j
     /\ results[i].loaded = results[j].loaded
     /\ results[i].generators = results[j].generators
     /\ results[i].routes = results[j].routes)
    => DocumentOf(i) = DocumentOf(j)

(***************************************************************************)
(* C2.  In the repository's document the 200 response of GET /api/users    *)
(* (declared with type UserListResponseDto) has the schema                 *)
(* {$ref: "#/components/schemas/UserListResponseDto"}.                     *)
(***************************************************************************)
UserListResponseIsReference ==
  \A i \in DOMAIN results :
    UsersDocumented(i) =>
      /\ UsersPath \in DOMAIN DocumentOf(i).paths
      /\ "get" \in DOMAIN DocumentOf(i).paths[UsersPath]
      /\ 200 \in DOMAIN DocumentOf(i).paths[UsersPath]["get"].responses
      /\ DocumentOf(i).paths[UsersPath]["get"].responses[200].schema
           = Some(RefSchema("UserListResponseDto"))

(***************************************************************************)
(* C3.  A response declared with isArray: true and a DTO class as type is  *)
(* documented with the schema {type: "array", items: {$ref: <class name>}}.*)
(***************************************************************************)
ArrayResponseIsArrayOfReference ==
  \A i \in Returned : \A r \in Recorded(i) :
    Sole(i, r) =>
      \A d \in DeclaredFor(r) :
        (d.slot # 0 /\ d.isArray) =>
          LET op == DocumentOf(i).paths[SwaggerPath(r)][ToLowerCase(r.method)]
          IN /\ d.slot \in DOMAIN op.responses
             /\ op.responses[d.slot].schema
                  = Some(ArraySchema(RefSchema(ClassName(d.dto))))

(***************************************************************************)
(* C4.  After generateSpec, components.schemas has an entry under the      *)
(* class's name for every DTO class with at least one declared property    *)
(* that a recorded route's request body or response names, nested or not.  *)
(***************************************************************************)
ReferencedDtoHasComponent ==
  \A i \in Returned : \A r \in Recorded(i) : \A d \in DeclaredFor(r) :
    Len(getApiProperties(meta, d.dto)) > 0
      => ClassName(d.dto) \in DOMAIN DocumentOf(i).components.schemas

(***************************************************************************)
(* C5.  The repository's document has components.schemas.UserResponseDto   *)
(* with exactly the properties id, email, name, isActive, createdAt and    *)
(* updatedAt, and name is not in its required list.                        *)
(***************************************************************************)
UserResponseDtoComponent ==
  \A i \in DOMAIN results :
    UsersDocumented(i) =>
      /\ "UserResponseDto" \in DOMAIN DocumentOf(i).components.schemas
      /\ LET schema == DocumentOf(i).components.schemas["UserResponseDto"]
         IN /\ {schema.properties[k].name : k \in DOMAIN schema.properties}
                 = {"id", "email", "name", "isActive", "createdAt", "updatedAt"}
            /\ Len(schema.properties) = 6
            /\ \A k \in DOMAIN schema.required : schema.required[k] # "name"

(***************************************************************************)
(* C6.  generateSpec only reads the metadata store: every stored fact is   *)
(* after the call what it was before it.                                   *)
(***************************************************************************)
GenerateSpecLeavesStore ==
  [][Len(results') > Len(results) => meta' = meta]_vars

\* what the store holds under the keys of class c
FactsOf(m, c) ==
  IF c \in DtoClasses
  THEN [property |-> IF IsSome(m.property[c]) THEN Some(m.propObj[m.property[c][1]]) ELSE None]
  ELSE [tags |-> m.tags[c],
        route |-> m.route[c],
        operation |-> m.operation[c],
        body |-> m.body[c],
        response |-> [p \in Methods |-> IF IsSome(m.response[c][p])
                                        THEN Some(m.respObj[m.response[c][p][1]][p]) ELSE None],
        query |-> [p \in Methods |-> IF IsSome(m.query[c][p])
                                     THEN Some(m.queryObj[m.query[c][p][1]][p]) ELSE None],
        param |-> [p \in Methods |-> IF IsSome(m.param[c][p])
                                     THEN Some(m.paramObj[m.param[c][p][1]][p]) ELSE None]]

\* the store after decorator d is applied
Applied(m, d) ==
  CASE d.kind = "ApiProperty" -> ApiProperty(m, d.cls, d.member, d.options)
    [] d.kind = "ApiPropertyOptional" -> ApiPropertyOptional(m, d.cls, d.member, d.options)
    [] d.kind = "ApiQuery" -> ApiQuery(m, d.cls, d.member, d.options)
    [] d.kind = "ApiParam" -> ApiParam(m, d.cls, d.member, d.options)
    [] d.kind = "ApiBody" -> ApiBody(m, d.cls, d.member, d.options)
    [] d.kind = "ApiOperation" -> ApiOperation(m, d.cls, d.member, d.options)
    [] d.kind = "ApiTags" -> ApiTags(m, d.cls, d.options.tags[1])
    [] d.kind \in RouteKinds ->
         createRouteDecorator(m, d.cls, d.member, RouteVerb(d.kind), d.options.path,
                              RouteMiddlewares(d.kind, d.options.middlewares))
    [] OTHER -> ApiResponse(m, d.cls, d.member, PredefinedResponse(d.kind, d.options))

(***************************************************************************)
(* C7.  Applying an annotation writes only the fact keyed by the class     *)
(* (or class and member) it is written on: what is stored for every other  *)
(* class, a parent in particular, is unchanged.                            *)
(***************************************************************************)
AnnotationWritesOwnKeyOnly ==
  [][loaded' = loaded + 1 =>
       \E d \in Pending :
         /\ meta' = Applied(meta, d)
         /\ \A c \in Classes \ {d.cls} : FactsOf(meta', c) = FactsOf(meta, c)]_vars

\* a route of c, as recorded at call i, makes its generator throw
GeneratorThrows(i, c) ==
  \E j \in DOMAIN results[i].routes[c] : OperationThrows(results[i].routes[c][j])

(***************************************************************************)
(* C8.  When the generator of one registered controller throws,            *)
(* generateSpec still returns a document, holding the paths of every other *)
(* controller.                                                             *)
(***************************************************************************)
GenerateSpecBestEffort ==
  \A i \in DOMAIN results :
    (\E g \in DOMAIN results[i].generators : GeneratorThrows(i, results[i].generators[g]))
    => /\ ~results[i].threw
       /\ \A g \in DOMAIN results[i].generators :
            LET c == results[i].generators[g]
            IN ~GeneratorThrows(i, c) =>
                 \A j \in DOMAIN results[i].routes[c] :
                   SwaggerPath(results[i].routes[c][j]) \in DOMAIN DocumentOf(i).paths

(***************************************************************************)
(* C9.  GET /api/users, with ApiQuery page written above ApiQuery limit,   *)
(* is documented with the parameters page and limit, both in: "query",     *)
(* page before limit.                                                      *)
(***************************************************************************)
QueryParametersInWrittenOrder ==
  \A i \in DOMAIN results :
    UsersDocumented(i) =>
      LET parameters == DocumentOf(i).paths[UsersPath]["get"].parameters
      IN /\ [k \in DOMAIN parameters |-> parameters[k].name] = <<"page", "limit">>
         /\ \A k \in DOMAIN parameters : parameters[k].in = "query"

\* the verb keys an operation may be documented under
LowerCaseVerbs == {"get", "post", "put", "delete", "patch", "custom"}

(***************************************************************************)
(* C10.  The document's paths holds an operation, under a lower-cased verb *)
(* key, for every (computed path, verb) pair of the recorded routes, and   *)
(* the operation held for a pair is that of a recorded route computing it. *)
(***************************************************************************)
EveryPairDocumented ==
  \A i \in Returned : \A r \in Recorded(i) :
    /\ SwaggerPath(r) \in DOMAIN DocumentOf(i).paths
    /\ ToLowerCase(r.method) \in DOMAIN DocumentOf(i).paths[SwaggerPath(r)]
    /\ DOMAIN DocumentOf(i).paths[SwaggerPath(r)] \subseteq LowerCaseVerbs
    /\ \E q \in Recorded(i) :
         /\ SamePair(q, r)
         /\ DocumentOf(i).paths[SwaggerPath(r)][ToLowerCase(r.method)]
              = ReadOperation(meta, generateOperation(meta, q))

\* a document was returned for routes of which two distinct ones, under
\* different verb spellings or paths, compute one pair
CollidingRoutesDocumented ==
  \E i \in Returned : \E q, r \in Recorded(i) :
    /\ q # r
    /\ SamePair(q, r)
    /\ Cardinality({SwaggerPath(x) : x \in Recorded(i)}) > 1

\* where index.ts and AppModule.setupRoutes mount a controller's router; a
\* controller added to the module is mounted under a path of its own, as
\* the repository's two are
MountPath(c) ==
  <<"/", "api">>
    \o (CASE c = "UserController" -> <<"/", "users">>
          [] c = "HealthController" -> <<"/", "health">>
          [] c = "ProductController" -> <<"/", "products">>
          [] OTHER -> <<"/", "admin">>)

MountedControllers == {"UserController", "HealthController"}

\* the tokens of a path template, one segment at a time: a segment ":name"
\* reads "{name}", every other segment reads as written
RECURSIVE OpenApiTemplate(_)
OpenApiTemplate(path) ==
  IF path = <<>> THEN <<>>
  ELSE IF Head(path) = "/" THEN <<"/">> \o OpenApiTemplate(Tail(path))
  ELSE LET n == SegmentLength(path)
           segment == SubSeq(path, 1, n)
       IN (IF n >= 2 /\ segment[1] = ":"
           THEN <<"{">> \o Tail(segment) \o <<"}">> ELSE segment)
          \o OpenApiTemplate(SubSeq(path, n + 1, Len(path)))

\* where the claim places route r in the document
TranslatedPath(r) ==
  MountPath(r.controller)
    \o (IF r.path \in {<<>>, <<"/">>} THEN <<>> ELSE OpenApiTemplate(r.path))

(***************************************************************************)
(* C11.  A route of a mounted controller is documented under exactly its   *)
(* mount path followed by its own path with every ":name" segment written  *)
(* "{name}" ("/:id" of UserController under "/api/users/{id}"), and a      *)
(* route whose own path is the controller root under the mount path.       *)
(***************************************************************************)
PathParametersTranslated ==
  \A i \in Returned :
    (\A r \in Recorded(i) : r.controller \in MountedControllers) =>
      /\ DOMAIN DocumentOf(i).paths = {TranslatedPath(r) : r \in Recorded(i)}
      /\ \A r \in Recorded(i) :
           ToLowerCase(r.method) \in DOMAIN DocumentOf(i).paths[TranslatedPath(r)]

\* a document holds "/api/users/{id}" for the repository's "/:id" routes,
\* a two-parameter path and a controller-root route
PathParametersDocumented ==
  \E i \in Returned :
    /\ \E r \in Recorded(i) : r.controller = "UserController" /\ r.path = IdPath
    /\ \E r \in Recorded(i) : r.path = PostsPath
    /\ \E r \in Recorded(i) : r.controller = "UserController" /\ r.path = <<>>
    /\ UsersPath \o <<"/", "{", "id", "}">> \in DOMAIN DocumentOf(i).paths
    /\ UsersPath \in DOMAIN DocumentOf(i).paths

\* the required flag the claim gives a parameter written with these options
RequiredByLocation(d) ==
  IF d.kind = "ApiParam" THEN d.options.required # "false"
  ELSE d.options.required = "true"

\* a decorator step that applies ApiParam or ApiQuery appends an entry with
\* the decorator's location and the flag of that location
ParameterStoredWithDefault ==
  loaded' = loaded + 1 =>
    \E d \in Pending :
      /\ meta' = Applied(meta, d)
      /\ d.kind \in {"ApiParam", "ApiQuery"} =>
           LET stored == IF d.kind = "ApiParam"
                         THEN getApiParams(meta', d.cls, d.member)
                         ELSE getApiQueries(meta', d.cls, d.member)
               entry == stored[Len(stored)]
           IN /\ Len(stored) > 0
              /\ entry.name = d.options.name
              /\ entry.in = (IF d.kind = "ApiParam" THEN "path" ELSE "query")
              /\ entry.required = RequiredByLocation(d)

\* the documented parameters of a route are the stored entries of its member
ParametersDocumentedAsStored ==
  \A i \in Returned : \A r \in Recorded(i) :
    Sole(i, r) =>
      LET op == DocumentOf(i).paths[SwaggerPath(r)][ToLowerCase(r.method)]
          stored == getApiParams(meta, r.controller, r.handler[1])
                      \o getApiQueries(meta, r.controller, r.handler[1])
      IN /\ Len(op.parameters) = Len(stored)
         /\ \A k \in DOMAIN stored :
              /\ op.parameters[k].name = stored[k].name
              /\ op.parameters[k].in = stored[k].in
              /\ op.parameters[k].required = stored[k].required

(***************************************************************************)
(* C12.  ApiParam stores in: "path" with required true unless required:    *)
(* false is written, ApiQuery stores in: "query" with required false       *)
(* unless required: true is written, and the document's parameter entries  *)
(* carry that location and flag.                                           *)
(***************************************************************************)
RequiredDefaultsByLocation ==
  []ParametersDocumentedAsStored /\ [][ParameterStoredWithDefault]_vars

\* the repository's document, whose ApiParam and ApiQuery give no required
\* option: id is a required path parameter, page an optional query parameter
DefaultFlagsDocumented ==
  \E i \in DOMAIN results :
    /\ UsersDocumented(i)
    /\ \E k \in DOMAIN DocumentOf(i).paths[UsersPath \o <<"/", "{", "id", "}">>]["get"].parameters :
         LET e == DocumentOf(i).paths[UsersPath \o <<"/", "{", "id", "}">>]["get"].parameters[k]
         IN e.name = "id" /\ e.in = "path" /\ e.required
    /\ \E k \in DOMAIN DocumentOf(i).paths[UsersPath]["get"].parameters :
         LET e == DocumentOf(i).paths[UsersPath]["get"].parameters[k]
         IN e.name = "page" /\ e.in = "query" /\ ~e.required

\* the statuses declared for the member of route r (its own or inherited)
DeclaredStatuses(r) == DOMAIN getApiResponses(meta, r.controller, r.handler[1])

(***************************************************************************)
(* C13.  Every operation of the document has at least one response: a      *)
(* route with no declared response has the single response "200" with      *)
(* schema {type: "object"}, and a route with declared responses has        *)
(* exactly the declared statuses, none synthesized.                        *)
(***************************************************************************)
EveryOperationHasResponse ==
  \A i \in Returned :
    /\ \A p \in DOMAIN DocumentOf(i).paths : \A v \in DOMAIN DocumentOf(i).paths[p] :
         DOMAIN DocumentOf(i).paths[p][v].responses # {}
    /\ \A r \in Recorded(i) :
         Sole(i, r) =>
           LET op == DocumentOf(i).paths[SwaggerPath(r)][ToLowerCase(r.method)]
           IN IF DeclaredStatuses(r) = {}
              THEN /\ DOMAIN op.responses = {200}
                   /\ op.responses[200].schema = Some(TypeSchema("object"))
              ELSE /\ DOMAIN op.responses = DeclaredStatuses(r)
                   /\ \A st \in DeclaredStatuses(r) :
                        op.responses[st].description
                          = getApiResponses(meta, r.controller, r.handler[1])[st].description

\* a document with one route that declares no response and one that does
DefaultAndDeclaredResponses ==
  \E i \in Returned : \E q, r \in Recorded(i) :
    /\ Sole(i, q) /\ Sole(i, r)
    /\ DeclaredStatuses(q) = {}
    /\ DeclaredStatuses(r) # {}
    /\ DocumentOf(i).paths[SwaggerPath(q)][ToLowerCase(q.method)].responses[200]
         = DefaultResponse

\* schema, as the document reads it, holds a DTO class somewhere
RECURSIVE HoldsClass(_)
HoldsClass(schema) ==
  IF schema.k = "class" THEN TRUE
  ELSE IF schema.k = "array" THEN HoldsClass(schema.items)
  ELSE IF schema.k = "literal"
       THEN \E k \in DOMAIN schema.properties : HoldsClass(schema.properties[k])
  ELSE IF schema.k = "object"
       THEN \E k \in DOMAIN schema.properties :
              /\ IsSome(schema.properties[k].fact.items)
              /\ HoldsClass(schema.properties[k].fact.items[1])
  ELSE FALSE

\* the request-body and response schemas of the operations of document i
OperationSchemas(i) ==
  UNION {UNION {
    LET op == DocumentOf(i).paths[p][v]
    IN (IF IsSome(op.requestBody) /\ IsSome(op.requestBody[1].schema)
        THEN {op.requestBody[1].schema[1]} ELSE {})
       \cup {op.responses[st].schema[1] :
               st \in {x \in DOMAIN op.responses : IsSome(op.responses[x].schema)}}
    : v \in DOMAIN DocumentOf(i).paths[p]} : p \in DOMAIN DocumentOf(i).paths}

(***************************************************************************)
(* C19.  After generateSpec no request-body or response schema of the      *)
(* document's operations holds a DTO class, at top level, in array items   *)
(* or in object properties: each has been replaced by a $ref.              *)
(***************************************************************************)
NoClassReferenceRemains ==
  \A i \in Returned : \A schema \in OperationSchemas(i) : ~HoldsClass(schema)

\* the route fact of method m as the constructor of c reads it
RouteFact(c, m) == OrdinaryGetMetadata(OfMember(meta.route, m), c)

\* the methods of constructed controller c whose route fact carries a verb
\* the router has no registration function for
UnsupportedVerbMethods(c) ==
  {m \in {OwnMethods(c)[k] : k \in DOMAIN OwnMethods(c)} :
     /\ IsSome(RouteFact(c, m))
     /\ ToLowerCase(RouteFact(c, m)[1].method) \notin RouterMethods}

(***************************************************************************)
(* C20.  A controller method whose route fact carries a verb the router    *)
(* does not support is skipped by setupRoutes: no handler is registered    *)
(* for it on the router and no route is recorded for it in the             *)
(* controller's generator.                                                 *)
(***************************************************************************)
UnsupportedVerbSkipped ==
  \A c \in instances : \A m \in UnsupportedVerbMethods(c) :
    /\ \A k \in DOMAIN router[c] :
         router[c][k].handlers[Len(router[c][k].handlers)].name # m
    /\ \A k \in DOMAIN routes[c] : routes[c][k].handler # Some(m)

(***************************************************************************)
(* The running application: app.ts, index.ts, AppModule, UserController,   *)
(* UserService and the user table behind prismaService.user.               *)
(***************************************************************************)
\* number of requests received in one run
MaxRequests == 3

\* the ids the data access gives to users, and the addresses of requests
Ids == {"u1", "u2"}

ValidEmails == {"ann@example.com", "bob@example.com"}

User(id, email, name) == [id |-> id, email |-> email, name |-> name]

\* the user table when the process starts
SeedTables == {{}, {User("u1", "ann@example.com", Some("Ann"))}}

\* prismaService.user.findUnique({where: {id}}) and ({where: {email}})
findUniqueById(table, id) ==
  IF \E u \in table : u.id = id THEN Some(CHOOSE u \in table : u.id = id) ELSE None

findUniqueByEmail(table, email) ==
  IF \E u \in table : u.email = email
  THEN Some(CHOOSE u \in table : u.email = email) ELSE None

\* the errors of shares/error and the error the data access raises on a
\* violated constraint (P2002: unique value taken, P2025: record missing)
AppError(class, message, statusCode, errorCode) ==
  [class |-> class, message |-> message, statusCode |-> statusCode,
   errorCode |-> errorCode, code |-> ""]

NotFoundError(message) == AppError("NotFoundError", message, 404, "NOT_FOUND")

BadRequestError(message) == AppError("BadRequestError", message, 400, "BAD_REQUEST")

ConflictError(message) == AppError("ConflictError", message, 409, "CONFLICT")

ValidationError(message) == AppError("ValidationError", message, 422, "VALIDATION_ERROR")

PrismaError(code) ==
  [class |-> "PrismaClientKnownRequestError", message |-> "", statusCode |-> 0,
   errorCode |-> "", code |-> code]

IsAppError(err) ==
  err.class \in {"NotFoundError", "BadRequestError", "ConflictError", "ValidationError"}

\* a response: its status, the error and message fields of a JSON body (none
\* when the body has no such field or is not JSON), and its data
Reply(status, type, error, message, data) ==
  [status |-> status, type |-> type, error |-> error, message |-> message, data |-> data]

\* ResponseUtil
ResponseSuccess(data) == Reply(200, "json", None, None, Some(data))

ResponsePaginated(data, pageMeta) ==
  Reply(200, "json", None, None, Some([data |-> data, meta |-> pageMeta]))

ResponseCreated(data) == Reply(201, "json", None, None, Some(data))

ResponseNoContent == Reply(204, "empty", None, None, None)

ResponseError(error, message, statusCode) ==
  Reply(statusCode, "json", Some(error), Some(message), None)

ResponseBadRequest(message) == ResponseError("BAD_REQUEST", message, 400)

ResponseNotFound(message) == ResponseError("NOT_FOUND", message, 404)

ResponseConflict(message) == ResponseError("CONFLICT", message, 409)

ResponseInternalServerError == ResponseError("INTERNAL_ERROR", "Internal server error", 500)

\* class-validator on the DTO instance plainToClass makes of a request body
\* {email, name}: IsEmail, and MinLength(1) on a name that is given
IsEmail(s) == s \in ValidEmails

ValidCreateUserDto(body) ==
  /\ IsSome(body.email) /\ IsEmail(body.email[1])
  /\ (IsSome(body.name) => body.name[1] # "")

ValidUpdateUserDto(body) ==
  /\ (IsSome(body.email) => IsEmail(body.email[1]))
  /\ (IsSome(body.name) => body.name[1] # "")

\* the middleware validateDto(dtoClass): the error it forwards, if any
validateDto(middleware, body) ==
  IF (middleware = "validateDto(CreateUserDto)" /\ ~ValidCreateUserDto(body))
     \/ (middleware = "validateDto(UpdateUserDto)" /\ ~ValidUpdateUserDto(body))
  THEN Some(ValidationError("Validation failed"))
  ELSE None

\* the application's layers in the order they are registered: those of
\* app.ts when it is imported, then those startServer adds
AppLayers ==
  <<"helmet", "cors", "express.json", "pinoHttp", "globalErrorHandler",
    "apiRouter", "notFoundHandler">>

ErrorHandlingLayers == {"globalErrorHandler"}

LayerOf(name) == CHOOSE k \in DOMAIN AppLayers : AppLayers[k] = name

\* the global error handler of app.ts
GlobalErrorHandler(err) ==
  IF IsAppError(err) THEN ResponseError(err.errorCode, err.message, err.statusCode)
  ELSE IF err.class = "ZodError"
       THEN ResponseError("VALIDATION_ERROR", "Data validation failed", 400)
  ELSE IF err.code = "P2002" THEN ResponseError("CONFLICT", "Data already exists", 409)
  ELSE ResponseError("INTERNAL_ERROR", "Internal server error", 500)

\* express's own answer to an error no layer handled: the error's status
\* code when it is an error status, and an HTML page
FinalHandler(err) ==
  Reply(IF err.statusCode >= 400 /\ err.statusCode < 600 THEN err.statusCode ELSE 500,
        "html", None, None, None)

\* next(err) from layer k: express gives the error to the first
\* error-handling layer registered after k, or else to its final handler
ForwardError(k, err) ==
  IF \E j \in DOMAIN AppLayers : j > k /\ AppLayers[j] \in ErrorHandlingLayers
  THEN GlobalErrorHandler(err)
  ELSE FinalHandler(err)

\* the 404 handler of index.ts
NotFoundHandler == ResponseError("NOT_FOUND", "Requested resource not found", 404)

\* a request: verb, path (tokens), query {page, limit} and body {email, name}
Request(verb, path, query, body) ==
  [verb |-> verb, path |-> path, query |-> query, body |-> body]

NoQuery == [page |-> None, limit |-> None]

NoBody == [email |-> None, name |-> None]

\* express matches "" and "/" alike
NormalPath(path) == IF path = <<>> THEN <<"/">> ELSE path

\* the parameters a route path binds in a request path, if it matches
RECURSIVE MatchTokens(_, _)
MatchTokens(pattern, rest) ==
  IF pattern = <<>> THEN (IF rest = <<>> THEN Some(<<>>) ELSE None)
  ELSE IF rest = <<>> THEN None
  ELSE IF Head(pattern) = ":"
       THEN LET m == MatchTokens(SubSeq(pattern, 3, Len(pattern)), Tail(rest))
            IN IF Head(rest) # "/" /\ IsSome(m)
               THEN Some(<<[name |-> pattern[2], value |-> Head(rest)]>> \o m[1])
               ELSE None
  ELSE IF Head(pattern) = Head(rest) THEN MatchTokens(Tail(pattern), Tail(rest))
  ELSE None

MatchPath(pattern, rest) == MatchTokens(NormalPath(pattern), NormalPath(rest))

IsPrefix(p, q) == Len(p) <= Len(q) /\ SubSeq(q, 1, Len(p)) = p

\* the registrations of controller c's router that take the request
Matching(c, req) ==
  {k \in DOMAIN router[c] :
     /\ router[c][k].method = ToLowerCase(req.verb)
     /\ IsPrefix(MountPath(c), req.path)
     /\ IsSome(MatchPath(router[c][k].path,
                         SubSeq(req.path, Len(MountPath(c)) + 1, Len(req.path))))}

DocsPath == <<"/", "api", "/", "docs">>

OpenApiPath == <<"/", "api", "/", "openapi.json">>

\* the /api router: the controllers' routers in mount order, then the
\* documentation routes when setupSwagger registered them
Dispatch(req) ==
  IF Matching("UserController", req) # {}
  THEN LET k == CHOOSE k \in Matching("UserController", req) :
                  \A j \in Matching("UserController", req) : k <= j
           reg == router["UserController"][k]
       IN [kind |-> "route", chain |-> reg.handlers,
           params |-> MatchPath(reg.path, SubSeq(req.path, Len(MountPath("UserController")) + 1,
                                                 Len(req.path)))[1]]
  ELSE IF docs.state = "ready" /\ req.verb = "GET" /\ req.path = DocsPath
       THEN [kind |-> "docs", chain |-> <<>>, params |-> <<>>]
  ELSE IF docs.state = "ready" /\ req.verb = "GET" /\ req.path = OpenApiPath
       THEN [kind |-> "openapi", chain |-> <<>>, params |-> <<>>]
  ELSE [kind |-> "none", chain |-> <<>>, params |-> <<>>]

\* what one step of a request did: the controller handler it ran (if any),
\* the UserService call it made, the data-access calls made, the error
\* raised, the response sent, and the continuation left awaiting the data
\* access
Outcome(handler, service, dao, raised, reply, pending) ==
  [handler |-> handler, service |-> service, dao |-> dao, raised |-> raised,
   reply |-> reply, pending |-> pending]

ServiceCall(op, args) == Some([op |-> op, args |-> args])

\* the defaults and the largest page size of UserController.getUsers
DefaultPage == 1

DefaultLimit == 10

MaxLimit == 100

\* parseInt of a query value: the integer its text writes; NaN (None) when
\* the value is absent
parseInt(v) == IF IsSome(v) THEN Some(v[1]) ELSE None

\* x || d on a number: d when x is NaN or 0
OrElse(x, d) == IF x = None \/ x = Some(0) THEN d ELSE x[1]

\* UserService.findAll: the page of the table paginate returns
findAll(table, dto) ==
  LET page == OrElse(Some(dto.page), 1)
      perPage == OrElse(Some(dto.limit), 10)
      total == Cardinality(table)
      skipped == (page - 1) * perPage
  IN [data |-> IF total <= skipped THEN 0
               ELSE IF total - skipped < perPage THEN total - skipped ELSE perPage,
      meta |-> [total |-> total, currentPage |-> page, perPage |-> perPage]]

\* UserController.getUsers
getUsers(table, query) ==
  LET page == OrElse(parseInt(query.page), DefaultPage)
      limit == OrElse(parseInt(query.limit), DefaultLimit)
  IN IF page < 1 \/ limit < 1 \/ limit > MaxLimit
     THEN Outcome(Some("getUsers"), None, <<>>,
                  Some(BadRequestError("Invalid pagination parameters")),
                  Some(ResponseBadRequest("Invalid pagination parameters")), None)
     ELSE LET result == findAll(table, [page |-> page, limit |-> limit])
          IN Outcome(Some("getUsers"), ServiceCall("findAll", <<page, limit>>),
                     <<"paginate">>, None,
                     Some(ResponsePaginated(result.data, result.meta)), None)

\* UserController.getUserById over UserService.findById
getUserById(table, id) ==
  LET user == findUniqueById(table, id)
  IN IF ~IsSome(user)
     THEN Outcome(Some("getUserById"), ServiceCall("findById", <<id>>), <<"findUnique">>,
                  Some(NotFoundError("User not found")),
                  Some(ResponseNotFound("User not found")), None)
     ELSE Outcome(Some("getUserById"), ServiceCall("findById", <<id>>), <<"findUnique">>,
                  None, Some(ResponseSuccess(user[1])), None)

\* createUser over a create that does not look the email up first
createUserUnchecked(table, body) ==
  Outcome(Some("createUser"), ServiceCall("create", <<body.email[1]>>), <<>>, None, None,
          Some([op |-> "create", pc |-> "create", id |-> "", body |-> body]))

\* UserController.createUser over UserService.create, up to the point
\* where create awaits prismaService.user.create
createUser(table, body) ==
  LET existingUser == findUniqueByEmail(table, body.email[1])
  IN IF IsSome(existingUser)
     THEN Outcome(Some("createUser"), ServiceCall("create", <<body.email[1]>>),
                  <<"findUnique">>, Some(ConflictError("Email already exists")),
                  Some(ResponseConflict("Email already exists")), None)
     ELSE Outcome(Some("createUser"), ServiceCall("create", <<body.email[1]>>),
                  <<"findUnique">>, None, None,
                  Some([op |-> "create", pc |-> "create", id |-> "", body |-> body]))

\* UserController.updateUser over UserService.update, up to its second
\* data-access call
updateUser(table, id, body) ==
  LET existingUser == findUniqueById(table, id)
  IN IF ~IsSome(existingUser)
     THEN Outcome(Some("updateUser"), ServiceCall("update", <<id>>), <<"findUnique">>,
                  Some(NotFoundError("User not found")),
                  Some(ResponseNotFound("User not found")), None)
     ELSE Outcome(Some("updateUser"), ServiceCall("update", <<id>>), <<"findUnique">>,
                  None, None,
                  Some([op |-> "update",
                        pc |-> IF IsSome(body.email) /\ body.email[1] # existingUser[1].email
                               THEN "emailExists" ELSE "update",
                        id |-> id, body |-> body]))

\* deleteUser over a delete that does not look the user up first
deleteUserUnchecked(table, id) ==
  Outcome(Some("deleteUser"), ServiceCall("delete", <<id>>), <<>>, None, None,
          Some([op |-> "delete", pc |-> "delete", id |-> id, body |-> NoBody]))

\* UserController.deleteUser over UserService.delete, up to
\* prismaService.user.delete
deleteUser(table, id) ==
  LET user == findUniqueById(table, id)
  IN IF ~IsSome(user)
     THEN Outcome(Some("deleteUser"), ServiceCall("delete", <<id>>), <<"findUnique">>,
                  Some(NotFoundError("User not found")),
                  Some(ResponseNotFound("User not found")), None)
     ELSE Outcome(Some("deleteUser"), ServiceCall("delete", <<id>>), <<"findUnique">>,
                  None, None,
                  Some([op |-> "delete", pc |-> "delete", id |-> id, body |-> NoBody]))

\* the value of path parameter name
PathParam(params, name) ==
  params[CHOOSE k \in DOMAIN params : params[k].name = name].value

\* the bound controller method a registration ends with, called on a request
CallHandler(handler, table, req, params) ==
  CASE handler.name = "getUsers" -> getUsers(table, req.query)
    [] handler.name = "getUserById" -> getUserById(table, PathParam(params, "id"))
    [] handler.name = "createUser" -> createUser(table, req.body)
    [] handler.name = "updateUser" -> updateUser(table, PathParam(params, "id"), req.body)
    [] handler.name = "deleteUser" -> deleteUser(table, PathParam(params, "id"))

\* the first middleware of the chain that forwards an error, with the error
RECURSIVE FirstError(_, _)
FirstError(middlewares, body) ==
  IF middlewares = <<>> THEN None
  ELSE IF IsSome(validateDto(Head(middlewares), body))
       THEN validateDto(Head(middlewares), body)
  ELSE FirstError(Tail(middlewares), body)

\* a registration's chain run on a request: the middlewares in order, then
\* the handler when each passed control on
RunChain(chain, table, req, params) ==
  LET err == FirstError(SubSeq(chain, 1, Len(chain) - 1), req.body)
  IN IF IsSome(err)
     THEN Outcome(None, None, <<>>, err,
                  Some(ForwardError(LayerOf("apiRouter"), err[1])), None)
     ELSE CallHandler(chain[Len(chain)], table, req, params)

\* a handler that generates the document anew for each request
ServeRegenerated(spec) ==
  Reply(200, "json", None, None, generateSpec(meta, generators, routes).spec)

\* the /openapi.json handler, res.json(spec), and the page swaggerUi.setup(spec)
\* serves: both hold the spec setupSwagger generated
ServeSpec(spec) == Reply(200, "json", None, None, spec)

SwaggerUiSetup(spec) == Reply(200, "html", None, None, spec)

\* the application's answer to a request, up to the first point where its
\* handler awaits a writing data-access call
Handle(req) ==
  LET d == Dispatch(req)
  IN CASE d.kind = "route" -> RunChain(d.chain, users, req, d.params)
       [] d.kind = "docs" ->
            Outcome(None, None, <<>>, None, Some(SwaggerUiSetup(docs.spec)), None)
       [] d.kind = "openapi" ->
            Outcome(None, None, <<>>, None, Some(ServeSpec(docs.spec)), None)
       [] OTHER -> Outcome(None, None, <<>>, None, Some(NotFoundHandler), None)

\* the record of a step of request n
Step(n, req, phase, o) ==
  Some([n |-> n, req |-> req, phase |-> phase, handler |-> o.handler,
        service |-> o.service, dao |-> o.dao, raised |-> o.raised, reply |-> o.reply])

\* AppModule.setupSwagger: both generators registered, the document
\* generated once and held by the documentation routes; an exception leaves
\* the routes unregistered
SetupSwagger ==
  /\ instances # {}
  /\ docs.state = "none"
  /\ generators = <<>>
  /\ LET gens == <<"UserController", "HealthController">>
         r == generateSpec(meta, gens, routes)
     IN /\ generators' = gens
        /\ meta' = r.meta
        /\ results' = Append(results,
                             [threw |-> r.threw, spec |-> r.spec, loaded |-> loaded,
                              generators |-> gens, routes |-> routes])
        /\ docs' = IF r.threw THEN [state |-> "failed", spec |-> None]
                   ELSE [state |-> "ready", spec |-> r.spec]
  /\ UNCHANGED <<scenario, loaded, declared, instances, router, routes, added>>
  /\ UNCHANGED <<users, inflight, issued, last>>

\* a request arrives at the listening application and runs until it is
\* answered or its handler awaits a writing data-access call
Receive(req) ==
  /\ docs.state # "none"
  /\ issued < MaxRequests
  /\ LET o == Handle(req)
     IN /\ issued' = issued + 1
        /\ last' = Step(issued + 1, req, "call", o)
        /\ inflight' = IF IsSome(o.pending)
                       THEN inflight \cup {[n |-> issued + 1, req |-> req, op |-> o.pending[1].op,
                                            pc |-> o.pending[1].pc, id |-> o.pending[1].id,
                                            body |-> o.pending[1].body]}
                       ELSE inflight
  /\ UNCHANGED <<scenario, loaded, meta, declared, instances, router, routes, generators,
                 added, results, docs, users>>

\* the fields of user u after prismaService.user.update with the data given
Updated(u, body) ==
  User(u.id, IF IsSome(body.email) THEN body.email[1] ELSE u.email,
       IF IsSome(body.name) THEN body.name ELSE u.name)

\* the handler of in-flight request r resumes with the data-access call it
\* awaited; newId is the id the data access would give a created user
Resumed(r, table, newId) ==
  LET handler == Some(r.op \o "User")
  IN CASE r.pc = "create" ->
            IF \E u \in table : u.email = r.body.email[1]
            THEN [table |-> table, next |-> None,
                  o |-> Outcome(handler, None, <<"create">>, Some(PrismaError("P2002")),
                                Some(ResponseInternalServerError), None)]
            ELSE LET user == User(newId, r.body.email[1], r.body.name)
                 IN [table |-> table \cup {user}, next |-> None,
                     o |-> Outcome(handler, None, <<"create">>, None,
                                   Some(ResponseCreated(user)), None)]
       [] r.pc = "emailExists" ->
            IF IsSome(findUniqueByEmail(table, r.body.email[1]))
            THEN [table |-> table, next |-> None,
                  o |-> Outcome(handler, None, <<"findUnique">>,
                                Some(ConflictError("Email already exists")),
                                Some(ResponseConflict("Email already exists")), None)]
            ELSE [table |-> table, next |-> Some("update"),
                  o |-> Outcome(handler, None, <<"findUnique">>, None, None, None)]
       [] r.pc = "update" ->
            LET user == findUniqueById(table, r.id)
            IN IF ~IsSome(user)
               THEN [table |-> table, next |-> None,
                     o |-> Outcome(handler, None, <<"update">>, Some(PrismaError("P2025")),
                                   Some(ResponseInternalServerError), None)]
               ELSE IF \E u \in table : u.id # r.id /\ u.email = Updated(user[1], r.body).email
               THEN [table |-> table, next |-> None,
                     o |-> Outcome(handler, None, <<"update">>, Some(PrismaError("P2002")),
                                   Some(ResponseInternalServerError), None)]
               ELSE [table |-> (table \ {user[1]}) \cup {Updated(user[1], r.body)},
                     next |-> None,
                     o |-> Outcome(handler, None, <<"update">>, None,
                                   Some(ResponseSuccess(Updated(user[1], r.body))), None)]
       [] r.pc = "delete" ->
            LET user == findUniqueById(table, r.id)
            IN IF ~IsSome(user)
               THEN [table |-> table, next |-> None,
                     o |-> Outcome(handler, None, <<"delete">>, Some(PrismaError("P2025")),
                                   Some(ResponseInternalServerError), None)]
               ELSE [table |-> table \ {user[1]}, next |-> None,
                     o |-> Outcome(handler, None, <<"delete">>, None,
                                   Some(ResponseNoContent), None)]

Resume(r) ==
  /\ r \in inflight
  /\ \E newId \in Ids :
       /\ IF r.pc = "create" /\ \E i \in Ids : \A u \in users : u.id # i
          THEN \A u \in users : u.id # newId
          ELSE newId = CHOOSE i \in Ids : TRUE
       /\ LET s == Resumed(r, users, newId)
          IN /\ users' = s.table
             /\ last' = Step(r.n, r.req, "resume", s.o)
             /\ inflight' = (inflight \ {r})
                              \cup (IF IsSome(s.next) THEN {[r EXCEPT !.pc = s.next[1]]} ELSE {})
  /\ UNCHANGED <<scenario, loaded, meta, declared, instances, router, routes, generators,
                 added, results, docs, issued>>

\* the requests sent to the application
PageValues == {None, Some(0 - 1), Some(0), Some(2)}

LimitValues == {None, Some(0), Some(100), Some(101)}

Bodies ==
  {[email |-> Some("ann@example.com"), name |-> Some("Ann")],
   [email |-> Some("bob@example.com"), name |-> None],
   [email |-> Some("invalid-email"), name |-> Some("Ann")],
   [email |-> None, name |-> Some("Bob")]}

Requests ==
  {Request("GET", UsersPath, [page |-> p, limit |-> l], NoBody) :
     p \in PageValues, l \in LimitValues}
  \cup {Request("GET", UsersPath \o <<"/", i>>, NoQuery, NoBody) : i \in Ids}
  \cup {Request("DELETE", UsersPath \o <<"/", i>>, NoQuery, NoBody) : i \in Ids}
  \cup {Request("POST", UsersPath, NoQuery, b) : b \in Bodies}
  \cup {Request("PUT", UsersPath \o <<"/", i>>, NoQuery, b) : i \in Ids, b \in Bodies}
  \cup {Request("GET", DocsPath, NoQuery, NoBody),
        Request("GET", OpenApiPath, NoQuery, NoBody),
        Request("GET", <<"/", "api", "/", "posts">>, NoQuery, NoBody)}

AppInit ==
  /\ scenario = "repository"
  /\ loaded = 0
  /\ meta = EmptyMeta
  /\ declared = {}
  /\ instances = {}
  /\ router = [c \in ControllerClasses |-> <<>>]
  /\ routes = [c \in ControllerClasses |-> <<>>]
  /\ generators = <<>>
  /\ added = 0
  /\ results = <<>>
  /\ docs = [state |-> "none", spec |-> None]
  /\ users \in SeedTables
  /\ inflight = {}
  /\ issued = 0
  /\ last = None

AppNext ==
  \/ ApplyApiProperty
  \/ ApplyApiResponse
  \/ ApplyApiQuery
  \/ ApplyApiParam
  \/ ApplyApiBody
  \/ ApplyApiOperation
  \/ ApplyApiTags
  \/ ApplyRoute
  \/ AppSetupRoutes
  \/ SetupSwagger
  \/ \E req \in Requests : Receive(req)
  \/ \E r \in inflight : Resume(r)

AppSpec == AppInit /\ [][AppNext]_vars

(***************************************************************************)
(* Vocabulary of the properties of the running application.                *)
(***************************************************************************)
\* the latest step is the call of UserService operation op by a handler
Calls(step, op) ==
  /\ IsSome(step)
  /\ step[1].phase = "call"
  /\ IsSome(step[1].service)
  /\ step[1].service[1].op = op

\* the latest step answered a request to one of the documentation routes
DocumentationAnswered ==
  /\ IsSome(last)
  /\ last[1].req.verb = "GET"
  /\ last[1].req.path \in {DocsPath, OpenApiPath}

DocumentationFromStoredSpec ==
  /\ Len(results) <= 1
  /\ (docs.state # "none" <=> Len(results) = 1)
  /\ DocumentationAnswered =>
       /\ ~results[1].threw
       /\ IsSome(last[1].reply)
       /\ last[1].reply[1].status = 200
       /\ last[1].reply[1].data = results[1].spec

RequestsNeverGenerate ==
  (issued' # issued \/ last' # last) => results' = results

DuplicateEmailStep ==
  (/\ issued' # issued
   /\ Calls(last', "create")
   /\ \E u \in users : u.email = last'[1].service[1].args[1])
  => /\ last'[1].raised = Some(ConflictError("Email already exists"))
     /\ \A k \in DOMAIN last'[1].dao : last'[1].dao[k] # "create"
     /\ users' = users
     /\ inflight' = inflight
     /\ IsSome(last'[1].reply)
     /\ last'[1].reply[1].status = 409
     /\ last'[1].reply[1].error = Some("CONFLICT")
     /\ last'[1].reply[1].message = Some("Email already exists")

UnknownIdStep ==
  (/\ issued' # issued
   /\ \E op \in {"findById", "update", "delete"} : Calls(last', op)
   /\ \A u \in users : u.id # last'[1].service[1].args[1])
  => /\ last'[1].raised = Some(NotFoundError("User not found"))
     /\ users' = users
     /\ inflight' = inflight
     /\ IsSome(last'[1].reply)
     /\ last'[1].reply[1].status = 404
     /\ last'[1].reply[1].error = Some("NOT_FOUND")
     /\ last'[1].reply[1].message = Some("User not found")

InvalidCreateReceived ==
  /\ IsSome(last)
  /\ last[1].req.verb = "POST"
  /\ last[1].req.path = UsersPath
  /\ ~ValidCreateUserDto(last[1].req.body)

(***************************************************************************)
(* C17.  A POST /api/users whose body fails CreateUserDto validation is    *)
(* answered 422 with error VALIDATION_ERROR; the createUser handler is not *)
(* invoked and no creation is left awaited.                                *)
(***************************************************************************)
InvalidBodyAnswered422 ==
  InvalidCreateReceived =>
    /\ IsSome(last[1].reply)
    /\ last[1].reply[1].status = 422
    /\ last[1].reply[1].error = Some("VALIDATION_ERROR")
    /\ last[1].handler = None
    /\ \A r \in inflight : r.n # last[1].n

\* the latest step took a GET /api/users with a numeric page and limit
PaginatedListRequested ==
  /\ IsSome(last)
  /\ last[1].req.verb = "GET"
  /\ last[1].req.path = UsersPath
  /\ IsSome(last[1].req.query.page)
  /\ IsSome(last[1].req.query.limit)

(***************************************************************************)
(* C18.  For a GET /api/users with numeric page and limit: when page < 1,  *)
(* limit < 1 or limit > 100 the answer is 400 BAD_REQUEST and findAll is   *)
(* not called; otherwise findAll is called with exactly that page and      *)
(* limit.                                                                  *)
(***************************************************************************)
PaginationBoundsEnforced ==
  PaginatedListRequested =>
    LET page == last[1].req.query.page[1]
        limit == last[1].req.query.limit[1]
    IN IF page < 1 \/ limit < 1 \/ limit > 100
       THEN /\ last[1].service = None
            /\ last[1].reply[1].status = 400
            /\ last[1].reply[1].error = Some("BAD_REQUEST")
       ELSE last[1].service = ServiceCall("findAll", <<page, limit>>)

\* the elements of a registered chain that run on a request with the body
\* given: each middleware in turn while the one before passed control on,
\* and then the handler
RECURSIVE ChainRun(_, _)
ChainRun(chain, body) ==
  IF Len(chain) <= 1 THEN chain
  ELSE IF IsSome(validateDto(Head(chain), body)) THEN <<Head(chain)>>
  ELSE <<Head(chain)>> \o ChainRun(Tail(chain), body)

\* the own methods of c that setupRoutes registers, in its order
RECURSIVE RegisteredMethods(_, _)
RegisteredMethods(c, methodNames) ==
  IF methodNames = <<>> THEN <<>>
  ELSE LET n == Len(methodNames)
           before == RegisteredMethods(c, SubSeq(methodNames, 1, n - 1))
       IN IF IsSome(RouteFact(c, methodNames[n]))
             /\ ToLowerCase(RouteFact(c, methodNames[n])[1].method) \in RouterMethods
          THEN Append(before, methodNames[n]) ELSE before

\* the middleware chain the route declaration of method m carries
DeclaredChain(c, m) ==
  IF IsSome(RouteFact(c, m)[1].middlewares) THEN RouteFact(c, m)[1].middlewares[1] ELSE <<>>

(***************************************************************************)
(* C21.  A route declared with a middleware chain [m1, ..., mn] is         *)
(* registered as m1, ..., mn followed by the controller method bound to    *)
(* the instance, and a route without a chain as the bound method alone; on *)
(* a request the chain runs in that order and the handler runs only if     *)
(* every middleware passed control on.                                     *)
(***************************************************************************)
ChainBeforeHandler ==
  \A c \in instances :
    LET ms == RegisteredMethods(c, OwnMethods(c))
    IN /\ Len(router[c]) = Len(ms)
       /\ \A k \in DOMAIN ms :
            LET chain == router[c][k].handlers
                n == Len(DeclaredChain(c, ms[k]))
            IN /\ Len(chain) = n + 1
               /\ SubSeq(chain, 1, n) = DeclaredChain(c, ms[k])
               /\ chain[n + 1] = [name |-> ms[k], this |-> c]
               /\ \A body \in Bodies :
                    LET ran == ChainRun(chain, body)
                    IN /\ ran = SubSeq(chain, 1, Len(ran))
                       /\ (Len(ran) = n + 1
                             <=> \A j \in 1..n : ~IsSome(validateDto(chain[j], body)))

TwoMiddlewaresRegistered ==
  \E k \in DOMAIN router["UserController"] :
    /\ "UserController" \in instances
    /\ Len(router["UserController"][k].handlers) = 3
    /\ \E body \in Bodies : Len(ChainRun(router["UserController"][k].handlers, body)) = 2

\* the methods bound by the routes of a generator, in recording order
BoundMethods(rs) == [k \in DOMAIN rs |-> rs[k].handler]

\* this step applies one declaration and leaves the store given
Applies(next) == meta' = next /\ loaded' = loaded + 1

(***************************************************************************)
(* C22.  Declaring a request body, an operation or a route on a method     *)
(* stores exactly the fact the declaration gives on a store that holds     *)
(* nothing, whatever the method held before, and leaves the facts of every *)
(* other method as they were; a constructed controller binds each method   *)
(* to at most one verb and path.                                           *)
(***************************************************************************)
LastDeclarationWins ==
  /\ [](\A c \in instances :
         \A j, k \in DOMAIN routes[c] :
           BoundMethods(routes[c])[j] = BoundMethods(routes[c])[k] => j = k)
  /\ [][\A d \in Pending :
          /\ (d.kind = "ApiBody" /\ Applies(ApiBody(meta, d.cls, d.member, d.options)))
               => /\ meta'.body[d.cls][d.member]
                       = ApiBody(EmptyMeta, d.cls, d.member, d.options).body[d.cls][d.member]
                  /\ \A c \in ControllerClasses, m \in Methods :
                       <<c, m>> # <<d.cls, d.member>> => meta'.body[c][m] = meta.body[c][m]
          /\ (d.kind = "ApiOperation"
                /\ Applies(ApiOperation(meta, d.cls, d.member, d.options)))
               => /\ meta'.operation[d.cls][d.member]
                       = ApiOperation(EmptyMeta, d.cls, d.member,
                                      d.options).operation[d.cls][d.member]
                  /\ \A c \in ControllerClasses, m \in Methods :
                       <<c, m>> # <<d.cls, d.member>>
                         => meta'.operation[c][m] = meta.operation[c][m]
          /\ (d.kind \in RouteKinds
                /\ Applies(createRouteDecorator(meta, d.cls, d.member, RouteVerb(d.kind),
                                                   d.options.path,
                                                   RouteMiddlewares(d.kind,
                                                                    d.options.middlewares))))
               => /\ meta'.route[d.cls][d.member]
                       = createRouteDecorator(EmptyMeta, d.cls, d.member, RouteVerb(d.kind),
                                              d.options.path,
                                              RouteMiddlewares(d.kind, d.options.middlewares)
                                             ).route[d.cls][d.member]
                  /\ \A c \in ControllerClasses, m \in Methods :
                       <<c, m>> # <<d.cls, d.member>> => meta'.route[c][m] = meta.route[c][m]
     ]_vars

\* two declarations were applied and the store holds one fact: the request
\* body of createUser, as its declaration without a description gives it
BodyRedeclared ==
  /\ loaded = 2
  /\ meta.body["UserController"]["createUser"]
       = Some([description |-> "", required |-> TRUE, schema |-> Some(TypeSchema("object"))])
  /\ \A c \in ControllerClasses :
       /\ meta.tags[c] = None
       /\ \A m \in Methods : meta.route[c][m] = None /\ meta.operation[c][m] = None

\* ApiResponse and the decorators defined by it
ResponseDecorators ==
  {"ApiResponse", "ApiOkResponse", "ApiCreatedResponse", "ApiBadRequestResponse",
   "ApiUnauthorizedResponse", "ApiNotFoundResponse", "ApiConflictResponse",
   "ApiInternalServerErrorResponse", "ApiServiceUnavailableResponse"}

(***************************************************************************)
(* C23.  Declaring a response for status s on a method adds or replaces    *)
(* the entry for s in the method's response map and leaves the entry of    *)
(* every other status of that method as it was.                            *)
(***************************************************************************)
ResponsesAccumulatePerStatus ==
  [][\A d \in Pending :
       (d.kind \in ResponseDecorators
          /\ Applies(ApiResponse(meta, d.cls, d.member, PredefinedResponse(d.kind, d.options))))
       => LET options == PredefinedResponse(d.kind, d.options)
              before == getApiResponses(meta, d.cls, d.member)
              after == getApiResponses(meta', d.cls, d.member)
          IN /\ DOMAIN after = DOMAIN before \cup {options.status}
             /\ after[options.status].description = options.description
             /\ IsSome(after[options.status].schema) = IsSome(options.typeArg)
             /\ \A t \in DOMAIN before : t # options.status => after[t] = before[t]
    ]_vars

\* a method holds responses for three statuses or more
SeveralStatusesStored ==
  \E c \in ControllerClasses, m \in Methods :
    Cardinality(DOMAIN getApiResponses(meta, c, m)) >= 3

\* the names of a sequence of parameter entries, in order
ParameterNames(entries) == [k \in DOMAIN entries |-> entries[k].name]

\* a step applying ApiParam or ApiQuery puts one entry, the declared one,
\* behind the entries the method held in that group, and leaves the
\* method's other group alone
ParameterAppended ==
  \A d \in Pending :
    /\ (d.kind = "ApiParam" /\ Applies(ApiParam(meta, d.cls, d.member, d.options)))
         => /\ ParameterNames(getApiParams(meta', d.cls, d.member))
                 = Append(ParameterNames(getApiParams(meta, d.cls, d.member)), d.options.name)
            /\ getApiQueries(meta', d.cls, d.member) = getApiQueries(meta, d.cls, d.member)
    /\ (d.kind = "ApiQuery" /\ Applies(ApiQuery(meta, d.cls, d.member, d.options)))
         => /\ ParameterNames(getApiQueries(meta', d.cls, d.member))
                 = Append(ParameterNames(getApiQueries(meta, d.cls, d.member)), d.options.name)
            /\ getApiParams(meta', d.cls, d.member) = getApiParams(meta, d.cls, d.member)

\* the parameters of a documented operation are the method's path entries
\* followed by its query entries, each group in stored order
PathThenQueryAsStored ==
  \A i \in Returned : \A r \in Recorded(i) :
    Sole(i, r) =>
      LET op == DocumentOf(i).paths[SwaggerPath(r)][ToLowerCase(r.method)]
          params == getApiParams(meta, r.controller, r.handler[1])
          queries == getApiQueries(meta, r.controller, r.handler[1])
      IN /\ ParameterNames(op.parameters) = ParameterNames(params) \o ParameterNames(queries)
         /\ \A k \in DOMAIN op.parameters :
              op.parameters[k].in = (IF k <= Len(params) THEN "path" ELSE "query")

(***************************************************************************)
(* C24.  In every operation's parameters all path parameters precede all   *)
(* query parameters, and within each group the entries appear in the order *)
(* in which their annotations were applied to the method, none lost and    *)
(* none duplicated.                                                        *)
(***************************************************************************)
ParametersInApplicationOrder ==
  []PathThenQueryAsStored /\ [][ParameterAppended]_vars

\* a documented operation with a path parameter ahead of a query parameter
PathAndQueryParametersDocumented ==
  \E i \in Returned :
    \E r \in Recorded(i) :
      /\ Sole(i, r)
      /\ r.handler = Some("getUserById")
      /\ LET names == ParameterNames(DocumentOf(i).paths[SwaggerPath(r)]
                                                       [ToLowerCase(r.method)].parameters)
         IN names = <<"id", "include">>

\* the routes call i walked: the generators in registration order, the
\* routes of each in recording order
RECURSIVE WalkedRoutes(_, _)
WalkedRoutes(gens, routesOf) ==
  IF gens = <<>> THEN <<>>
  ELSE routesOf[Head(gens)] \o WalkedRoutes(Tail(gens), routesOf)

\* per walked route of call i, the tags of the operation the document holds
\* at the route's path and verb
DocumentedTags(i) ==
  LET walk == WalkedRoutes(results[i].generators, results[i].routes)
      op(r) == DocumentOf(i).paths[SwaggerPath(r)][ToLowerCase(r.method)]
  IN [k \in DOMAIN walk |-> IF IsSome(op(walk[k]).tags) THEN op(walk[k]).tags[1] ELSE <<>>]

\* per walked route of call i, the tags of the operation generateSpec
\* assigned for it, whether or not a later route replaced that operation
GeneratedTags(i) ==
  LET entries == AllEntries(meta, results[i].generators, results[i].routes)
  IN [k \in DOMAIN entries |->
        IF IsSome(entries[k].operation.tags) THEN entries[k].operation.tags[1] ELSE <<>>]

\* where tag t first occurs in a sequence of tag lists: the first list
\* that carries it, and its first place in that list
FirstOccurrence(tagLists, t) ==
  LET carries(k) == \E n \in DOMAIN tagLists[k] : tagLists[k][n] = t
      k0 == CHOOSE k \in DOMAIN tagLists : carries(k) /\ \A j \in 1..(k - 1) : ~carries(j)
      n0 == CHOOSE n \in DOMAIN tagLists[k0] :
              tagLists[k0][n] = t /\ \A j \in 1..(n - 1) : tagLists[k0][j] # t
  IN <<k0, n0>>

\* top lists exactly the names occurring in the tag lists, each once, in
\* the order of their first occurrence
CollectedFrom(top, tagLists) ==
  /\ {top[k].name : k \in DOMAIN top}
       = UNION {{tagLists[k][n] : n \in DOMAIN tagLists[k]} : k \in DOMAIN tagLists}
  /\ \A j, k \in DOMAIN top : top[j].name = top[k].name => j = k
  /\ \A j, k \in DOMAIN top :
       j < k =>
         LET a == FirstOccurrence(tagLists, top[j].name)
             b == FirstOccurrence(tagLists, top[k].name)
         IN a[1] < b[1] \/ (a[1] = b[1] /\ a[2] < b[2])

(***************************************************************************)
(* C25.  The top-level tags of the document are exactly the tag names that *)
(* occur in the tags of some documented operation, each once, ordered by   *)
(* first occurrence on the walk over the generators in registration order  *)
(* and their routes in recording order.                                    *)
(***************************************************************************)
TopLevelTagsAreOperationTags ==
  \A i \in Returned : CollectedFrom(DocumentOf(i).tags, DocumentedTags(i))

\* C25 as the code has it: the names are those of the operations generated
\* on the walk, one per route, including an operation that a later route
\* of the same path and verb replaced in the document
TopLevelTagsAreGeneratedTags ==
  \A i \in Returned : CollectedFrom(DocumentOf(i).tags, GeneratedTags(i))

\* a document of two controllers whose operations carry the same two tags,
\* listed once each
TagsOfTwoControllersCollected ==
  \E i \in Returned :
    /\ Len(results[i].generators) = 2
    /\ Len(DocumentOf(i).tags) = 2
    /\ \E j, k \in DOMAIN GeneratedTags(i) : j # k /\ Len(GeneratedTags(i)[j]) = 2
                                              /\ GeneratedTags(i)[k] = GeneratedTags(i)[j]

\* the DTO class the request body of route r is declared with (type: C)
\* when C has no declared property, as the store has it
PropertylessBodyClasses(r) ==
  LET body == OrdinaryGetMetadata(OfMember(meta.body, r.handler[1]), r.controller)
  IN IF IsSome(r.handler) /\ IsSome(body) /\ IsSome(body[1].schema)
        /\ body[1].schema[1].k = "class"
        /\ Len(getApiProperties(meta, body[1].schema[1].cls)) = 0
     THEN {body[1].schema[1].cls} ELSE {}

(***************************************************************************)
(* C26.  When a recorded route's request body is declared with a DTO class *)
(* that has no declared property, generateSpec returns a document without  *)
(* a components.schemas entry for the class, in which the request body's   *)
(* schema is the $ref to the class's name.                                 *)
(***************************************************************************)
PropertylessDtoDangles ==
  [][Len(results') > Len(results) =>
       LET walk == WalkedRoutes(generators, routes)
           call == results'[Len(results')]
       IN \A k \in DOMAIN walk : \A c \in PropertylessBodyClasses(walk[k]) :
            /\ (\A j \in DOMAIN walk : ~OperationThrows(walk[j])) => ~call.threw
            /\ ~call.threw =>
                 /\ ClassName(c) \notin DOMAIN call.spec[1].components.schemas
                 /\ (\A j \in DOMAIN walk :
                       SamePair(walk[j], walk[k]) => walk[j].handler = walk[k].handler)
                    => LET op == call.spec[1].paths[SwaggerPath(walk[k])]
                                                   [ToLowerCase(walk[k].method)]
                       IN /\ IsSome(op.requestBody)
                          /\ op.requestBody[1].schema = Some(RefSchema(ClassName(c)))
    ]_vars

\* a document whose createUser operation refers to CreateUserDto, a class
\* without declared properties and without a component
DanglingReferenceDocumented ==
  \E i \in Returned : \E r \in Recorded(i) :
    /\ r.handler = Some("createUser")
    /\ Len(getApiProperties(meta, "CreateUserDto")) = 0
    /\ "CreateUserDto" \notin DOMAIN DocumentOf(i).components.schemas
    /\ LET op == DocumentOf(i).paths[SwaggerPath(r)][ToLowerCase(r.method)]
       IN IsSome(op.requestBody)
          /\ op.requestBody[1].schema = Some(RefSchema("CreateUserDto"))

(***************************************************************************)
(* C27.  However two POST /api/users requests with the same email          *)
(* interleave, at most one user with that email is stored, and a request   *)
(* answered by createUser without creating the user is answered 409        *)
(* CONFLICT "Email already exists".                                        *)
(***************************************************************************)
ConcurrentCreateAnswered409 ==
  /\ \A u, v \in users : u.email = v.email => u = v
  /\ (/\ IsSome(last)
      /\ last[1].handler = Some("createUser")
      /\ IsSome(last[1].reply)
      /\ last[1].reply[1].status # 201)
     => last[1].reply = Some(ResponseConflict("Email already exists"))

\* the latest step ended with an error forwarded by next(err) from a
\* route's middleware chain, the handler not reached
ErrorForwarded ==
  /\ IsSome(last)
  /\ IsSome(last[1].raised)
  /\ last[1].handler = None

(***************************************************************************)
(* C28.  In the application assembled by startServer, an error that a      *)
(* route's middleware forwards with next(err) is answered by the global    *)
(* error handler of app.ts: a JSON body with the error's code as error and *)
(* its message, under the error's status code.                             *)
(***************************************************************************)
ForwardedErrorAnsweredAsJson ==
  ErrorForwarded =>
    /\ IsSome(last[1].reply)
    /\ last[1].reply[1].type = "json"
    /\ last[1].reply[1].status = last[1].raised[1].statusCode
    /\ last[1].reply[1].error = Some(last[1].raised[1].errorCode)
    /\ last[1].reply[1].message = Some(last[1].raised[1].message)

(***************************************************************************)
(* C29.  Every route of every controller registered with the               *)
(* documentation generator is documented under the path at which the       *)
(* application serves it: the global prefix, the controller's mount path   *)
(* and the route's own path with its parameters translated.                *)
(***************************************************************************)
DocumentedWhereServed ==
  \A i \in Returned : \A r \in Recorded(i) :
    /\ TranslatedPath(r) \in DOMAIN DocumentOf(i).paths
    /\ ToLowerCase(r.method) \in DOMAIN DocumentOf(i).paths[TranslatedPath(r)]

\* the tags ApiOperation stored for the method of route r
OperationTagsOf(r) ==
  LET operation == getApiOperation(meta, r.controller, r.handler[1])
  IN IF IsSome(operation.tags) THEN operation.tags[1] ELSE <<>>

(***************************************************************************)
(* C30.  The tags given to a method through ApiOperation({tags}) appear in *)
(* the tags of that method's operation in the document, and in the         *)
(* top-level tag list, also when the controller class carries ApiTags.     *)
(***************************************************************************)
OperationTagsDocumented ==
  \A i \in Returned : \A r \in Recorded(i) :
    Sole(i, r) =>
      \A n \in DOMAIN OperationTagsOf(r) :
        LET op == DocumentOf(i).paths[SwaggerPath(r)][ToLowerCase(r.method)]
        IN /\ IsSome(op.tags)
           /\ \E k \in DOMAIN op.tags[1] : op.tags[1][k] = OperationTagsOf(r)[n]
           /\ \E k \in DOMAIN DocumentOf(i).tags :
                DocumentOf(i).tags[k].name = OperationTagsOf(r)[n]

====
